---- MODULE Spec2Model ----
(***************************************************************************)
(* Model of the arm-control page (the Arm component with interpolation):   *)
(* the inverse-kinematics solver, the linear trajectory planner, the       *)
(* interval driven trajectory executor and the pose synchronisation over   *)
(* the control WebSocket.                                                  *)
(*                                                                         *)
(* Numbers are fixed point integers:                                       *)
(*   lengths          1 unit = 1e-5 m                                      *)
(*   radians          1 unit = 1e-5 rad                                    *)
(*   degrees          1 unit = 1e-3 degree                                 *)
(*   sin, cos, d      1 unit = 1e-4                                        *)
(*   squared lengths  1 unit = 1e-8 m^2                                    *)
(* so that the roundings of the code (toFixed(4) on metres, toFixed(2) on  *)
(* degrees, toFixed(3) in adjustValue) and the degree/radian conversions   *)
(* are real operations on the values and not identities.                   *)
(***************************************************************************)
EXTENDS Integers, Sequences, FiniteSets, TLC

(***************************************************************************)
(* Arithmetic helpers (Math.abs, Math.max, Math.min, Math.ceil, Math.sqrt) *)
(***************************************************************************)
Abs(v) == IF v < 0 THEN -v ELSE v

\* the element of a one-element set
Only(S) == CHOOSE v \in S : TRUE

Max(u, v) == IF u >= v THEN u ELSE v

Min(u, v) == IF u <= v THEN u ELSE v

Sign(v) == IF v < 0 THEN -1 ELSE 1

\* n / q rounded to the nearest integer, halves away from zero (q > 0)
RoundDiv(n, q) == Sign(n) * ((2 * Abs(n) + q) \div (2 * q))

\* Math.ceil(n / q) for n >= 0, q > 0
CeilDiv(n, q) == (n + q - 1) \div q

\* the number Infinity: above every count and every index
Infinity == 1000000000

\* Math.ceil(n / q) for n > 0 and any q: n / 0 is Infinity, and the ceiling
\* of a negative quotient rounds toward zero
CeilQuot(n, q) ==
    IF q > 0 THEN CeilDiv(n, q)
    ELSE IF q = 0 THEN Infinity
    ELSE -(n \div (-q))

RECURSIVE SqrtSearch(_, _, _)
SqrtSearch(n, lo, hi) ==
    IF lo >= hi THEN lo
    ELSE Only({IF mid * mid <= n THEN SqrtSearch(n, mid, hi)
                                 ELSE SqrtSearch(n, lo, mid - 1) :
               mid \in {(lo + hi + 1) \div 2}})

\* floor(Math.sqrt(n)), 0 <= n < 2^31
ISqrt(n) == SqrtSearch(n, 0, 46340)

\* ceil(Math.sqrt(n))
ISqrtCeil(n) == LET r == ISqrt(n) IN IF r * r = n THEN r ELSE r + 1

\* v^2 for a length v, in 1e-8 m^2; |v| saturates at 3 m, far outside the
\* workspace, which keeps the sum of two squares inside 32 bits
SqE8(v) ==
    LET w == Min(Abs(v), 300000)
    IN IF w <= 46000 THEN (w * w) \div 100 ELSE (w \div 10) * (w \div 10)

\* Math.sqrt(x^2 + y^2) of lengths, as a length
Hypot(x, y) ==
    IF y = 0 THEN Abs(x)
    ELSE IF x = 0 THEN Abs(y)
    ELSE IF Abs(x) <= 32000 /\ Abs(y) <= 32000 THEN ISqrt(x * x + y * y)
    ELSE 10 * ISqrt(SqE8(x) + SqE8(y))

\* ceil of Math.sqrt(dx^2 + dy^2 + dz^2) of lengths, as a length
Norm3Ceil(dx, dy, dz) ==
    IF dy = 0 /\ dz = 0 THEN Abs(dx)
    ELSE IF dx = 0 /\ dz = 0 THEN Abs(dy)
    ELSE IF dx = 0 /\ dy = 0 THEN Abs(dz)
    ELSE IF Abs(dx) <= 26000 /\ Abs(dy) <= 26000 /\ Abs(dz) <= 26000
         THEN ISqrtCeil(dx * dx + dy * dy + dz * dz)
    ELSE LET m == Max(Abs(dx), Max(Abs(dy), Abs(dz)))
             s == IF m <= 260000 THEN 10 ELSE 100
         IN s * ISqrtCeil((dx \div s) * (dx \div s) + (dy \div s) * (dy \div s)
                          + (dz \div s) * (dz \div s))

(***************************************************************************)
(* Trigonometry (Math.sin, Math.cos, Math.atan2) by table and linear       *)
(* interpolation                                                           *)
(***************************************************************************)
PI == 314159

\* 10000 * sin(k degrees), k = 0..90
SinTable ==
    <<0, 175, 349, 523, 698, 872, 1045, 1219, 1392, 1564, 1736, 1908, 2079,
      2250, 2419, 2588, 2756, 2924, 3090, 3256, 3420, 3584, 3746, 3907, 4067,
      4226, 4384, 4540, 4695, 4848, 5000, 5150, 5299, 5446, 5592, 5736, 5878,
      6018, 6157, 6293, 6428, 6561, 6691, 6820, 6947, 7071, 7193, 7314, 7431,
      7547, 7660, 7771, 7880, 7986, 8090, 8192, 8290, 8387, 8480, 8572, 8660,
      8746, 8829, 8910, 8988, 9063, 9135, 9205, 9272, 9336, 9397, 9455, 9511,
      9563, 9613, 9659, 9703, 9744, 9781, 9816, 9848, 9877, 9903, 9925, 9945,
      9962, 9976, 9986, 9994, 9998, 10000>>

\* 100000 * atan(k / 64), k = 0..64
AtanTable ==
    <<0, 1562, 3124, 4684, 6242, 7797, 9348, 10894, 12435, 13971, 15500,
      17021, 18535, 20040, 21536, 23022, 24498, 25963, 27417, 28859, 30288,
      31706, 33110, 34500, 35877, 37240, 38588, 39922, 41241, 42545, 43834,
      45107, 46365, 47607, 48833, 50044, 51239, 52418, 53581, 54728, 55860,
      56976, 58076, 59160, 60229, 61282, 62320, 63343, 64350, 65343, 66320,
      67283, 68232, 69166, 70085, 70991, 71883, 72761, 73626, 74477, 75315,
      76140, 76953, 77752, 78540>>

\* the number NaN
NaN == -2000000000

\* Number.isFinite(v)
IsFinite(v) == v # NaN /\ v # Infinity /\ v # -Infinity

\* (r * 180) / Math.PI : radians to degrees (180 / pi = 1017 / 17.75); NaN
\* and the infinities pass through the product and the quotient
radToDeg(r) == IF IsFinite(r) THEN RoundDiv(r * 1017, 1775) ELSE r

\* (d * Math.PI) / 180 : degrees to radians
deg2rad(d) == RoundDiv(d * 1775, 1017)

\* sine of an angle given in millidegrees within 0..90000
SinQuadrant(m) ==
    LET k == m \div 1000
        f == m % 1000
    IN IF f = 0 THEN SinTable[k + 1]
       ELSE SinTable[k + 1] + RoundDiv((SinTable[k + 2] - SinTable[k + 1]) * f, 1000)

\* sine of an angle given in millidegrees; w is the angle within one turn
SinMilliDeg(m) ==
    Only({IF w <= 90000 THEN SinQuadrant(w)
          ELSE IF w <= 180000 THEN SinQuadrant(180000 - w)
          ELSE IF w <= 270000 THEN -SinQuadrant(w - 180000)
          ELSE -SinQuadrant(360000 - w) : w \in {m % 360000}})

\* Math.sin(r), r in radians
Sin(r) == SinMilliDeg(radToDeg(r))

\* Math.cos(r), r in radians
Cos(r) == SinMilliDeg(radToDeg(r) + 90000)

\* atan(n / q) for 0 <= n <= q, q > 0, in radians
RECURSIVE AtanRatio(_, _)
AtanRatio(n, q) ==
    IF q > 300000 THEN AtanRatio(n \div 10, q \div 10)
    ELSE LET t == (n * 6400) \div q
             k == t \div 100
             f == t % 100
         IN IF f = 0 THEN AtanTable[k + 1]
            ELSE AtanTable[k + 1] + RoundDiv((AtanTable[k + 2] - AtanTable[k + 1]) * f, 100)

\* Math.atan2(y, x), in radians: the angle of the first quadrant (base),
\* then the quadrant of the point
Atan2(y, x) ==
    LET Quadrant(v, u, base) ==
            IF u >= 0 THEN (IF v >= 0 THEN base ELSE -base)
            ELSE (IF v >= 0 THEN PI - base ELSE -(PI - base))
        Angle(v, u) ==
            IF u = 0 /\ v = 0 THEN 0
            ELSE Only({Quadrant(v, u, base) :
                         base \in {IF Abs(v) <= Abs(u)
                                   THEN AtanRatio(Abs(v), Abs(u))
                                   ELSE PI \div 2 - AtanRatio(Abs(u), Abs(v))}})
    IN Only({Angle(v, u) : v \in {y}, u \in {x}})

(***************************************************************************)
(* Geometry constants and the kinematics solver                            *)
(***************************************************************************)
\* const limits: the range of each joint, in degrees
limits ==
    [q1 |-> <<-90000, 90000>>, q2 |-> <<-10000, 190000>>,
     q3 |-> <<-150000, 150000>>, q4 |-> <<-150000, 150000>>,
     q5 |-> <<-90000, 90000>>]

l1 == 10000

l2 == 43000

l3 == 43000

l4 == 21300

\* a = Math.sqrt(x^2 + y^2) - l4 * Math.cos(pitch)
PlanarA(x, y, pitch) == Hypot(x, y) - RoundDiv(l4 * Cos(pitch), 10000)

\* b = z - l4 * Math.sin(pitch) - l1
PlanarB(z, pitch) == z - RoundDiv(l4 * Sin(pitch), 10000) - l1

\* numerator of d : a^2 + b^2 - l2^2 - l3^2
ElbowNum(a, b) == SqE8(a) + SqE8(b) - SqE8(l2) - SqE8(l3)

\* denominator of d : 2 * l2 * l3
ElbowDen == 2 * ((l2 * l3) \div 100)

\* d = (a^2 + b^2 - l2^2 - l3^2) / (2 * l2 * l3), before any clamp
ElbowD(a, b) == RoundDiv(ElbowNum(a, b), ElbowDen \div 10000)

\* d = Math.max(-1, Math.min(1, d))
ClampD(d) == Max(-10000, Min(10000, d))

\* roll and pitch in radians; the result is in degrees.  Each intermediate
\* value of the solver (a, b, d, q3, q2) is bound once, in the order the code
\* computes them.
inverseKinematics(x, y, z, roll, pitch) ==
    LET Joints(q2, q3) ==
            [q1 |-> radToDeg(Atan2(y, x)), q2 |-> radToDeg(q2),
             q3 |-> radToDeg(q3), q4 |-> radToDeg(pitch - q2 - q3),
             q5 |-> radToDeg(roll)]
        Shoulder(a, b, q3) ==
            Only({Joints(q2, q3) :
                    q2 \in {Atan2(b, a)
                            - Atan2(RoundDiv(l3 * Sin(q3), 10000),
                                    l2 + RoundDiv(l3 * Cos(q3), 10000))}})
        Elbow(a, b, d) ==
            Only({Shoulder(a, b, q3) :
                    q3 \in {-Atan2(ISqrt(10000 * 10000 - d * d), d)}})
        Planar(a, b) ==
            Only({Elbow(a, b, d) : d \in {ClampD(ElbowD(a, b))}})
    IN Only({Planar(a, b) : a \in {PlanarA(x, y, pitch)},
                            b \in {PlanarB(z, pitch)}})

\* variant: the test reads d after the clamp of the solver
isReachable_ClampedD(x, y, z, roll, pitch) ==
    LET a == PlanarA(x, y, pitch)
        b == PlanarB(z, pitch)
    IN Abs(ClampD(ElbowD(a, b))) <= 10000

\* variant: the test accepts |d| up to 1.5
isReachable_UpToOneAndAHalf(x, y, z, roll, pitch) ==
    LET a == PlanarA(x, y, pitch)
        b == PlanarB(z, pitch)
    IN 2 * Abs(ElbowNum(a, b)) <= 3 * ElbowDen

\* Math.abs(d) <= 1.0, on the unclamped d
isReachable(x, y, z, roll, pitch) ==
    LET a == PlanarA(x, y, pitch)
        b == PlanarB(z, pitch)
    IN Abs(ElbowNum(a, b)) <= ElbowDen

(***************************************************************************)
(* Trajectory planner                                                      *)
(***************************************************************************)
\* variant: t = (i - 1) / n, so that the first waypoint is the start
lerp_FromStart(a, b, i, n) ==
    IF n = Infinity THEN a ELSE a + RoundDiv((b - a) * (i - 1), n)

\* a + (b - a) * t with t = i / n; i / Infinity is 0
lerp(a, b, i, n) == IF n = Infinity THEN a ELSE a + RoundDiv((b - a) * i, n)

\* variant: the orientation difference is counted on a translation as well
NumSteps_OrientationToo(start, end, stepSize, orientationStep) ==
    LET dist == Norm3Ceil(end.x - start.x, end.y - start.y, end.z - start.z)
        maxOrient == Max(Abs(end.roll - start.roll), Abs(end.pitch - start.pitch))
    IN IF dist = 0
       THEN (IF maxOrient = 0 THEN 0
             ELSE Max(2, CeilQuot(maxOrient, orientationStep)))
       ELSE IF maxOrient = 0 THEN Max(2, CeilQuot(dist, stepSize))
       ELSE Max(2, Max(CeilQuot(dist, stepSize),
                       CeilQuot(maxOrient, orientationStep)))

\* variant: a rotation in place is divided by the step size
NumSteps_RotationByStepSize(start, end, stepSize, orientationStep) ==
    LET dist == Norm3Ceil(end.x - start.x, end.y - start.y, end.z - start.z)
        maxOrient == Max(Abs(end.roll - start.roll), Abs(end.pitch - start.pitch))
    IN IF dist = 0
       THEN (IF maxOrient = 0 THEN 0
             ELSE Max(2, CeilQuot(maxOrient, stepSize)))
       ELSE Max(2, CeilQuot(dist, stepSize))

\* variant: without the early return, an unchanged pose is planned in two steps
NumSteps_NoEmptyPlan(start, end, stepSize, orientationStep) ==
    LET dist == Norm3Ceil(end.x - start.x, end.y - start.y, end.z - start.z)
        maxOrient == Max(Abs(end.roll - start.roll), Abs(end.pitch - start.pitch))
    IN IF dist = 0
       THEN (IF maxOrient = 0 THEN 2
             ELSE Max(2, CeilQuot(maxOrient, orientationStep)))
       ELSE Max(2, CeilQuot(dist, stepSize))

\* numSteps, the bound of the loop; 0 stands for the early return of []
NumSteps(start, end, stepSize, orientationStep) ==
    LET dist == Norm3Ceil(end.x - start.x, end.y - start.y, end.z - start.z)
        maxOrient == Max(Abs(end.roll - start.roll), Abs(end.pitch - start.pitch))
    IN IF dist = 0
       THEN (IF maxOrient = 0 THEN 0
             ELSE Max(2, CeilQuot(maxOrient, orientationStep)))
       ELSE Max(2, CeilQuot(dist, stepSize))

\* the waypoint pushed by iteration i of the loop
WaypointAt(start, end, i, numSteps) ==
    [x     |-> lerp(start.x, end.x, i, numSteps),
     y     |-> lerp(start.y, end.y, i, numSteps),
     z     |-> lerp(start.z, end.z, i, numSteps),
     roll  |-> lerp(start.roll, end.roll, i, numSteps),
     pitch |-> lerp(start.pitch, end.pitch, i, numSteps)]

\* the value a call returns; roll and pitch of start, end and of the
\* waypoints are radians
generateLinearTrajectory(start, end, stepSize, orientationStep) ==
    LET numSteps == NumSteps(start, end, stepSize, orientationStep)
    IN [i \in 1..numSteps |-> WaypointAt(start, end, i, numSteps)]

(***************************************************************************)
(* Bounds of the model and the inputs the handlers are tried with          *)
(***************************************************************************)
\* number of events of one behaviour that write the pose or drive the
\* executor: position edits, presets, go-to-target, cancel, socket messages
MaxOps == 2

\* number of changes of the settings in one behaviour: target inputs,
\* step size slider, interpolation and remote control toggles
MaxSettings == 3

\* longest plan the model lets the executor play back
MaxPlan == 3

\* the value that stands for an absent timer handle (null)
NoTimer == 0

\* values typed into the inputs of "Current Position"
EditValues == [x |-> {103000}]

\* values typed into the inputs of "Target Position" (roll, pitch radians)
TargetValues == [x |-> {15010, 104000}, z |-> {35000}, roll |-> {2000}]

\* values of the step size slider (0.001 .. 0.01 m)
StepSizes == {400}

\* the + and - buttons pressed: the axis and the sign of the 0.01 step
AdjustInputs == {<<"x", 1>>}

\* values of the orientation step slider (0.01 .. 0.3 rad)
OrientationSteps == {3000}

\* values of the rate slider (1 .. 50 Hz)
WaypointRates == {50}

Presets == {"HOME"}

\* A value of a field of msg.data, as JSON.parse returns it: kind tells what
\* it is and v the number Number() makes of it where that depends on the
\* value.  Fin(v) is the number v.
Fin(v) == [kind |-> "number", v |-> v]

\* the field is absent (undefined)
NotFin == [kind |-> "undefined", v |-> 0]

JsonNull == [kind |-> "null", v |-> 0]

\* the string ""
EmptyString == [kind |-> "empty string", v |-> 0]

\* a string that is no numeral, such as "abc"
Text == [kind |-> "text", v |-> 0]

\* true, one being the number 1 in the unit of the field
JsonTrue(one) == [kind |-> "true", v |-> one]

JsonFalse == [kind |-> "false", v |-> 0]

\* the data of an envelope that carries no number
NoData == [x |-> NotFin, y |-> NotFin, z |-> NotFin, roll |-> NotFin, pitch |-> NotFin]

\* An inbound envelope: ok tells whether JSON.parse accepts the text, type
\* is msg?.type ("undefined" when the field is missing), hasData whether
\* msg?.data is truthy; pose data are metres and degrees.
Envelope(ok, type, hasData, data) ==
    [ok |-> ok, type |-> type, hasData |-> hasData, data |-> data]

\* envelopes the handler must drop: text that is no JSON, a missing type, a
\* type that is no string, a pose without data
Malformed ==
    { Envelope(FALSE, "undefined", FALSE, NoData),
      Envelope(TRUE, "undefined", TRUE, NoData),
      Envelope(TRUE, "7", TRUE, NoData),
      Envelope(TRUE, "pose", FALSE, NoData) }

InboundMessages ==
    { Envelope(TRUE, "pose", TRUE,
               [x |-> Fin(17000), y |-> Fin(0), z |-> Fin(30000),
                roll |-> Fin(0), pitch |-> Fin(0)]),
      Envelope(TRUE, "pose", TRUE, [NoData EXCEPT !.x = Fin(120000)]),
      Envelope(TRUE, "status", TRUE, NoData) } \cup Malformed

(***************************************************************************)
(* State of the component                                                  *)
(***************************************************************************)
VARIABLES
    pos,                   \* useState pos {x, y, z, roll, pitch}: metres, degrees
    angles,                \* useState angles {q1 .. q5}: degrees
    remoteControl,         \* useState remoteControl
    interpolationEnabled,  \* useState interpolationEnabled
    stepSize,              \* useState stepSize
    orientationStep,       \* useState orientationStep
    waypointRate,          \* useState waypointRate (Hz)
    targetInput,           \* useState targetInput: metres, radians
    trajectory,            \* useState trajectory
    currentWaypointIndex,  \* useState currentWaypointIndex
    isExecuting,           \* useState isExecuting
    trajectoryHistory,     \* useState trajectoryHistory
    trajectoryRef,         \* useRef trajectoryRef.current
    waypointIndexRef,      \* useRef waypointIndexRef.current
    executingRef,          \* useRef executingRef.current
    animationTimerRef,     \* useRef animationTimerRef.current (NoTimer = null)
    updatingFromWS,        \* useRef updatingFromWS.current
    poseTimer,             \* useRef poseTimer.current (NoTimer = null)
    timeouts,              \* the window's pending setTimeout timers
    coalesced,             \* pose changes that armed a timer since a timer last fired
    poseCleanup,           \* the last run of the pose effect returned its cleanup
    intervals,             \* the window's live setInterval timers
    microtasks,            \* callbacks queued with queueMicrotask, not yet run
    rendered,              \* state values of the last committed render
    dirty,                 \* state set since the last committed render
    wsState,               \* readyState of wsRef.current
    submitted,             \* payloads handed to sendWS by the last step
    sent,                  \* messages handed to ws.send by the last step
    posWriter,             \* author of the last setPos
    lastOp,                \* the last handler that ran and what it decided
    ops,                   \* number of pose and executor events so far
    settings,              \* number of changes of the settings so far
    planner,               \* a call of generateLinearTrajectory and its locals
    solver,                \* a pose given to isReachable and inverseKinematics
    actuator,              \* a press/release button, its pointer and its actuator
    clock,                 \* the time of the window and the deadlines of its timers
    connection,            \* the WebSockets the socket effect created, and wsRef.current
    autonomous             \* the state of the Autonomous page and its requests

armVars == <<pos, angles, remoteControl, interpolationEnabled, stepSize,
          orientationStep, waypointRate, targetInput, trajectory, currentWaypointIndex,
          isExecuting, trajectoryHistory, trajectoryRef, waypointIndexRef,
          executingRef, animationTimerRef, updatingFromWS, poseTimer,
          timeouts, coalesced, poseCleanup, intervals, microtasks, rendered, dirty, wsState,
          submitted, sent, posWriter, lastOp, ops, settings>>

vars == <<armVars, planner, solver, actuator, clock, connection, autonomous>>

\* the state as one record, for the handlers below
State ==
    [pos |-> pos, angles |-> angles, remoteControl |-> remoteControl,
     interpolationEnabled |-> interpolationEnabled, stepSize |-> stepSize,
     orientationStep |-> orientationStep, waypointRate |-> waypointRate,
     targetInput |-> targetInput,
     trajectory |-> trajectory, currentWaypointIndex |-> currentWaypointIndex,
     isExecuting |-> isExecuting, trajectoryHistory |-> trajectoryHistory,
     trajectoryRef |-> trajectoryRef, waypointIndexRef |-> waypointIndexRef,
     executingRef |-> executingRef, animationTimerRef |-> animationTimerRef,
     updatingFromWS |-> updatingFromWS, poseTimer |-> poseTimer,
     timeouts |-> timeouts, coalesced |-> coalesced,
     poseCleanup |-> poseCleanup, intervals |-> intervals,
     microtasks |-> microtasks, rendered |-> rendered, dirty |-> dirty,
     wsState |-> wsState, submitted |-> submitted, sent |-> sent,
     posWriter |-> posWriter,
     lastOp |-> lastOp, ops |-> ops, settings |-> settings]

\* the next state of the component is the record r
ArmBecomes(r) ==
    /\ pos' = r.pos
    /\ angles' = r.angles
    /\ remoteControl' = r.remoteControl
    /\ interpolationEnabled' = r.interpolationEnabled
    /\ stepSize' = r.stepSize
    /\ orientationStep' = r.orientationStep
    /\ waypointRate' = r.waypointRate
    /\ targetInput' = r.targetInput
    /\ trajectory' = r.trajectory
    /\ currentWaypointIndex' = r.currentWaypointIndex
    /\ isExecuting' = r.isExecuting
    /\ trajectoryHistory' = r.trajectoryHistory
    /\ trajectoryRef' = r.trajectoryRef
    /\ waypointIndexRef' = r.waypointIndexRef
    /\ executingRef' = r.executingRef
    /\ animationTimerRef' = r.animationTimerRef
    /\ updatingFromWS' = r.updatingFromWS
    /\ poseTimer' = r.poseTimer
    /\ timeouts' = r.timeouts
    /\ coalesced' = r.coalesced
    /\ poseCleanup' = r.poseCleanup
    /\ intervals' = r.intervals
    /\ microtasks' = r.microtasks
    /\ rendered' = r.rendered
    /\ dirty' = r.dirty
    /\ wsState' = r.wsState
    /\ submitted' = r.submitted
    /\ sent' = r.sent
    /\ posWriter' = r.posWriter
    /\ lastOp' = r.lastOp
    /\ ops' = r.ops
    /\ settings' = r.settings

\* the next state is the record r
BecomesRecord(r) ==
    /\ ArmBecomes(r)
    /\ planner' = planner
    /\ solver' = solver
    /\ actuator' = actuator
    /\ clock' = clock
    /\ connection' = connection
    /\ autonomous' = autonomous

\* the record is computed once and then assigned
Becomes(r) == \E t \in {r} : BecomesRecord(t)

Clean == [pos |-> FALSE, angles |-> FALSE, other |-> FALSE]

Dirty == dirty.pos \/ dirty.angles \/ dirty.other

\* React has scheduled a render and no microtask stands before it
RenderPending == Dirty /\ microtasks = 0

\* a pose or target that stands for "none"
NoPose == [x |-> 0, y |-> 0, z |-> 0, roll |-> 0, pitch |-> 0]

\* what a handler leaves in lastOp: its name, the target it was asked for,
\* whether it ran the isReachable loop over the plan, and whether it accepted
\* the target
Request(name, target, checked, accepted) ==
    [op |-> name, target |-> target, checked |-> checked, accepted |-> accepted]

\* a handler that is given no target
Op(name, checked, accepted) == Request(name, NoPose, checked, accepted)

(***************************************************************************)
(* Transport                                                               *)
(***************************************************************************)
\* variant: the payload is sent whatever the readyState is
sendWS_WhateverState(s, payload) ==
    [s EXCEPT !.submitted = Append(@, payload), !.sent = Append(@, payload)]

\* ws.send only while the socket is OPEN; otherwise the payload is dropped
sendWS(s, payload) ==
    IF s.wsState = "open"
    THEN [s EXCEPT !.submitted = Append(@, payload), !.sent = Append(@, payload)]
    ELSE [s EXCEPT !.submitted = Append(@, payload)]

JointAnglesMsg(a) == [type |-> "joint_angles", data |-> a]

\* the payload of the timeout t; n tells how many pose changes it stands for
PoseMsg(t, n) ==
    [type |-> "pose", data |-> t.data, author |-> t.author, coalesced |-> n]

(***************************************************************************)
(* Effects of the component, run by React after a render is committed      *)
(***************************************************************************)
\* +v.toFixed(k): v rounded to a multiple of q units
toFixed(v, q) == RoundDiv(v, q) * q

\* variant: roll and pitch are taken over in degrees
CurrentPoint_Degrees(p) ==
    [x |-> p.x, y |-> p.y, z |-> p.z, roll |-> p.roll, pitch |-> p.pitch]

\* the pose of the arm in the units of the solver (radians)
CurrentPoint(p) ==
    [x |-> p.x, y |-> p.y, z |-> p.z,
     roll |-> deg2rad(p.roll), pitch |-> deg2rad(p.pitch)]

\* inverseKinematics(x, y, z, deg2rad(roll), deg2rad(pitch)) of a pose
AnglesOfPose(p) ==
    inverseKinematics(p.x, p.y, p.z, deg2rad(p.roll), deg2rad(p.pitch))

\* effect on [pos]: recompute the angles unless a trajectory is executing
RecomputeDue(s) == s.dirty.pos /\ ~s.executingRef

\* variant: the pending timeout is never cleared
ClearPoseTimer_Never(s) == s.timeouts

\* if (poseTimer.current) window.clearTimeout(poseTimer.current)
ClearPoseTimer(s) == {t \in s.timeouts : t.id # s.poseTimer}

\* cleanup of the pose effect, when the last run of the effect returned one
PoseEffectCleanup(s) ==
    IF s.poseCleanup THEN [s EXCEPT !.timeouts = ClearPoseTimer(s)] ELSE s

\* effect on [pos.x, pos.y, pos.z, pos.roll, pos.pitch]: debounced pose send
PoseEffectBody(s) ==
    IF s.updatingFromWS THEN [s EXCEPT !.poseCleanup = FALSE]
    ELSE LET live == ClearPoseTimer(s)
             id == CHOOSE n \in 1..(Cardinality(live) + 1) :
                      \A t \in live : t.id # n
         IN [s EXCEPT !.timeouts = live \cup {[id |-> id, data |-> s.pos,
                                               author |-> s.posWriter]},
                      !.poseTimer = id,
                      !.coalesced = @ + 1,
                      !.poseCleanup = TRUE]

PoseEffect(s) == PoseEffectBody(PoseEffectCleanup(s))

\* effect on [remoteControl]: its cleanup closes the socket and the effect
\* opens a new one, which starts in CONNECTING
SocketEffect(s) ==
    IF s.remoteControl # s.rendered.remoteControl
    THEN [s EXCEPT !.wsState = "connecting"] ELSE s

\* variant: the recomputed angles of a remotely authored pose are not sent
Commit_QuietForRemote(s) ==
    LET s0 == SocketEffect(s)
        s1 == IF s.dirty.angles THEN sendWS(s0, JointAnglesMsg(s.angles)) ELSE s0
        s2 == IF s.pos # s.rendered.pos THEN PoseEffect(s1) ELSE s1
        s3 == IF RecomputeDue(s)
              THEN (IF s.posWriter = "remote"
                    THEN [s2 EXCEPT !.angles = AnglesOfPose(s.pos)]
                    ELSE sendWS([s2 EXCEPT !.angles = AnglesOfPose(s.pos)],
                                JointAnglesMsg(AnglesOfPose(s.pos))))
              ELSE s2
    IN [s3 EXCEPT !.rendered = [pos |-> s.pos, isExecuting |-> s.isExecuting,
                                remoteControl |-> s.remoteControl],
                  !.dirty = Clean]

\* A committed render and its effects, in the order they are declared: the
\* socket effect, the angles effect, which sends the angles of this render,
\* and the pose effect, which runs when a pose field changed; the setAngles
\* of the recompute effect causes a second render whose angles effect sends
\* the recomputed angles.
Commit(s) ==
    LET s0 == SocketEffect(s)
        s1 == IF s.dirty.angles THEN sendWS(s0, JointAnglesMsg(s.angles)) ELSE s0
        s2 == IF s.pos # s.rendered.pos THEN PoseEffect(s1) ELSE s1
        s3 == IF RecomputeDue(s)
              THEN sendWS([s2 EXCEPT !.angles = AnglesOfPose(s.pos)],
                          JointAnglesMsg(AnglesOfPose(s.pos)))
              ELSE s2
    IN [s3 EXCEPT !.rendered = [pos |-> s.pos, isExecuting |-> s.isExecuting,
                                remoteControl |-> s.remoteControl],
                  !.dirty = Clean]

(***************************************************************************)
(* Trajectory executor                                                     *)
(***************************************************************************)
\* variant: only the first waypoint of the plan is validated
AllReachable_FirstOnly(waypoints) ==
    Len(waypoints) = 0
    \/ isReachable(waypoints[1].x, waypoints[1].y, waypoints[1].z,
                   waypoints[1].roll, waypoints[1].pitch)

AllReachable(waypoints) ==
    \A i \in 1..Len(waypoints) :
        isReachable(waypoints[i].x, waypoints[i].y, waypoints[i].z,
                    waypoints[i].roll, waypoints[i].pitch)

\* the handle window.setInterval returns: one no live timer has
NewTimer(live) == CHOOSE id \in 1..(Cardinality(live) + 1) : id \notin live

\* variant: the timer is never cleared
ClearAnimationTimer_Never(s) == s.intervals

\* clearInterval(animationTimerRef.current), guarded by the handle not being null
ClearAnimationTimer(s) == s.intervals \ {s.animationTimerRef}

\* the plan startTrajectory makes for a target, from the rendered pose
PlanFor(s, targetPos) ==
    generateLinearTrajectory(CurrentPoint(s.rendered.pos), targetPos,
                             s.stepSize, s.orientationStep)

\* variant: the plan is stored in the refs before it is validated
startTrajectory_StoresFirst(s, targetPos, name) ==
    LET currentPoint == CurrentPoint(s.rendered.pos)
        waypoints == PlanFor(s, targetPos)
        id == NewTimer(ClearAnimationTimer(s))
    IN IF Len(waypoints) = 0
       THEN [s EXCEPT !.lastOp = Request(name, targetPos, FALSE, FALSE)]
       ELSE IF ~AllReachable(waypoints)
       THEN [s EXCEPT !.trajectoryRef = waypoints,
                      !.waypointIndexRef = 0,
                      !.lastOp = Request(name, targetPos, TRUE, FALSE)]
       ELSE [s EXCEPT !.trajectoryRef = waypoints,
                      !.waypointIndexRef = 0,
                      !.executingRef = TRUE,
                      !.trajectory = waypoints,
                      !.currentWaypointIndex = 0,
                      !.isExecuting = TRUE,
                      !.trajectoryHistory = <<currentPoint>>,
                      !.intervals = ClearAnimationTimer(s) \cup {id},
                      !.animationTimerRef = id,
                      !.lastOp = Request(name, targetPos, TRUE, TRUE)]

\* variant: without the return on an empty plan, the empty sequence is run
startTrajectory_RunsEmptyPlan(s, targetPos, name) ==
    LET currentPoint == CurrentPoint(s.rendered.pos)
        waypoints == PlanFor(s, targetPos)
        id == NewTimer(ClearAnimationTimer(s))
    IN IF ~AllReachable(waypoints)
       THEN [s EXCEPT !.lastOp = Request(name, targetPos, TRUE, FALSE)]
       ELSE [s EXCEPT !.trajectoryRef = waypoints,
                      !.waypointIndexRef = 0,
                      !.executingRef = TRUE,
                      !.trajectory = waypoints,
                      !.currentWaypointIndex = 0,
                      !.isExecuting = TRUE,
                      !.trajectoryHistory = <<currentPoint>>,
                      !.intervals = ClearAnimationTimer(s) \cup {id},
                      !.animationTimerRef = id,
                      !.lastOp = Request(name, targetPos, TRUE, TRUE)]

\* variant: the running timer is torn down before the plan is validated
startTrajectory_StopsFirst(s, targetPos, name) ==
    LET currentPoint == CurrentPoint(s.rendered.pos)
        waypoints == PlanFor(s, targetPos)
        id == NewTimer(ClearAnimationTimer(s))
        stopped == [s EXCEPT !.intervals = ClearAnimationTimer(s),
                             !.animationTimerRef = NoTimer]
    IN IF Len(waypoints) = 0
       THEN [stopped EXCEPT !.lastOp = Request(name, targetPos, FALSE, FALSE)]
       ELSE IF ~AllReachable(waypoints)
       THEN [stopped EXCEPT !.lastOp = Request(name, targetPos, TRUE, FALSE)]
       ELSE [s EXCEPT !.trajectoryRef = waypoints,
                      !.waypointIndexRef = 0,
                      !.executingRef = TRUE,
                      !.trajectory = waypoints,
                      !.currentWaypointIndex = 0,
                      !.isExecuting = TRUE,
                      !.trajectoryHistory = <<currentPoint>>,
                      !.intervals = ClearAnimationTimer(s) \cup {id},
                      !.animationTimerRef = id,
                      !.lastOp = Request(name, targetPos, TRUE, TRUE)]

startTrajectory(s, targetPos, name) ==
    LET currentPoint == CurrentPoint(s.rendered.pos)
        waypoints == PlanFor(s, targetPos)
        id == NewTimer(ClearAnimationTimer(s))
    IN IF Len(waypoints) = 0
       THEN [s EXCEPT !.lastOp = Request(name, targetPos, FALSE, FALSE)]
       ELSE IF ~AllReachable(waypoints)
       THEN [s EXCEPT !.lastOp = Request(name, targetPos, TRUE, FALSE)]
       ELSE [s EXCEPT !.trajectoryRef = waypoints,
                      !.waypointIndexRef = 0,
                      !.executingRef = TRUE,
                      !.trajectory = waypoints,
                      !.currentWaypointIndex = 0,
                      !.isExecuting = TRUE,
                      !.trajectoryHistory = <<currentPoint>>,
                      !.intervals = ClearAnimationTimer(s) \cup {id},
                      !.animationTimerRef = id,
                      !.lastOp = Request(name, targetPos, TRUE, TRUE)]

\* the pose a tick writes for a waypoint
PoseOfWaypoint(wp) ==
    [x |-> toFixed(wp.x, 10), y |-> toFixed(wp.y, 10), z |-> toFixed(wp.z, 10),
     roll |-> toFixed(radToDeg(wp.roll), 10),
     pitch |-> toFixed(radToDeg(wp.pitch), 10)]

\* variant: on completion the handle is dropped without clearInterval
IntervalTick_DoneKeepsTimer(s) ==
    LET idx == s.waypointIndexRef
        traj == s.trajectoryRef
    IN IF idx >= Len(traj)
       THEN [s EXCEPT !.animationTimerRef = NoTimer,
                      !.executingRef = FALSE,
                      !.isExecuting = FALSE,
                      !.dirty.other = TRUE,
                      !.lastOp = Op("tickDone", FALSE, FALSE)]
       ELSE LET wp == traj[idx + 1]
            IN [s EXCEPT !.angles = inverseKinematics(wp.x, wp.y, wp.z, wp.roll, wp.pitch),
                         !.pos = PoseOfWaypoint(wp),
                         !.currentWaypointIndex = idx,
                         !.trajectoryHistory = Append(@, wp),
                         !.waypointIndexRef = idx + 1,
                         !.dirty = [pos |-> TRUE, angles |-> TRUE, other |-> TRUE],
                         !.posWriter = "tick",
                         !.lastOp = Op("tick", FALSE, FALSE)]

\* variant: the completion branch is missing, the timer goes on firing
IntervalTick_NeverDone(s) ==
    LET idx == s.waypointIndexRef
        traj == s.trajectoryRef
    IN IF idx >= Len(traj)
       THEN s
       ELSE LET wp == traj[idx + 1]
            IN [s EXCEPT !.angles = inverseKinematics(wp.x, wp.y, wp.z, wp.roll, wp.pitch),
                         !.pos = PoseOfWaypoint(wp),
                         !.currentWaypointIndex = idx,
                         !.trajectoryHistory = Append(@, wp),
                         !.waypointIndexRef = idx + 1,
                         !.dirty = [pos |-> TRUE, angles |-> TRUE, other |-> TRUE],
                         !.posWriter = "tick",
                         !.lastOp = Op("tick", FALSE, FALSE)]

\* variant: the index advances by two, so every other waypoint is skipped
IntervalTick_SkipsWaypoint(s) ==
    LET idx == s.waypointIndexRef
        traj == s.trajectoryRef
    IN IF idx >= Len(traj)
       THEN [s EXCEPT !.intervals = ClearAnimationTimer(s),
                      !.animationTimerRef = NoTimer,
                      !.executingRef = FALSE,
                      !.isExecuting = FALSE,
                      !.dirty.other = TRUE,
                      !.lastOp = Op("tickDone", FALSE, FALSE)]
       ELSE LET wp == traj[idx + 1]
            IN [s EXCEPT !.angles = inverseKinematics(wp.x, wp.y, wp.z, wp.roll, wp.pitch),
                         !.pos = PoseOfWaypoint(wp),
                         !.currentWaypointIndex = idx,
                         !.trajectoryHistory = Append(@, wp),
                         !.waypointIndexRef = idx + 2,
                         !.dirty = [pos |-> TRUE, angles |-> TRUE, other |-> TRUE],
                         !.posWriter = "tick",
                         !.lastOp = Op("tick", FALSE, FALSE)]

\* variant: the tick that applies the last waypoint also ends the run
IntervalTick_DoneWithLast(s) ==
    LET idx == s.waypointIndexRef
        traj == s.trajectoryRef
    IN IF idx >= Len(traj)
       THEN [s EXCEPT !.intervals = ClearAnimationTimer(s),
                      !.animationTimerRef = NoTimer,
                      !.executingRef = FALSE,
                      !.isExecuting = FALSE,
                      !.dirty.other = TRUE,
                      !.lastOp = Op("tickDone", FALSE, FALSE)]
       ELSE LET wp == traj[idx + 1]
                last == idx + 1 >= Len(traj)
            IN [s EXCEPT !.angles = inverseKinematics(wp.x, wp.y, wp.z, wp.roll, wp.pitch),
                         !.pos = PoseOfWaypoint(wp),
                         !.currentWaypointIndex = idx,
                         !.trajectoryHistory = Append(@, wp),
                         !.waypointIndexRef = idx + 1,
                         !.intervals = IF last THEN ClearAnimationTimer(s) ELSE @,
                         !.animationTimerRef = IF last THEN NoTimer ELSE @,
                         !.executingRef = ~last,
                         !.isExecuting = ~last,
                         !.dirty = [pos |-> TRUE, angles |-> TRUE, other |-> TRUE],
                         !.posWriter = "tick",
                         !.lastOp = Op("tick", FALSE, FALSE)]

\* the callback of the interval timer
IntervalTick(s) ==
    LET idx == s.waypointIndexRef
        traj == s.trajectoryRef
    IN IF idx >= Len(traj)
       THEN [s EXCEPT !.intervals = ClearAnimationTimer(s),
                      !.animationTimerRef = NoTimer,
                      !.executingRef = FALSE,
                      !.isExecuting = FALSE,
                      !.dirty.other = TRUE,
                      !.lastOp = Op("tickDone", FALSE, FALSE)]
       ELSE LET wp == traj[idx + 1]
            IN [s EXCEPT !.angles = inverseKinematics(wp.x, wp.y, wp.z, wp.roll, wp.pitch),
                         !.pos = PoseOfWaypoint(wp),
                         !.currentWaypointIndex = idx,
                         !.trajectoryHistory = Append(@, wp),
                         !.waypointIndexRef = idx + 1,
                         !.dirty = [pos |-> TRUE, angles |-> TRUE, other |-> TRUE],
                         !.posWriter = "tick",
                         !.lastOp = Op("tick", FALSE, FALSE)]

\* variant: cancel drops the handle without clearInterval
cancelTrajectory_TimerLeft(s) ==
    [s EXCEPT !.animationTimerRef = NoTimer,
              !.executingRef = FALSE,
              !.isExecuting = FALSE,
              !.trajectory = <<>>,
              !.currentWaypointIndex = 0,
              !.lastOp = Op("cancelTrajectory", FALSE, FALSE)]

\* variant: cancel clears the timer and leaves executingRef set
cancelTrajectory_FlagLeft(s) ==
    [s EXCEPT !.intervals = ClearAnimationTimer(s),
              !.animationTimerRef = NoTimer,
              !.isExecuting = FALSE,
              !.trajectory = <<>>,
              !.currentWaypointIndex = 0,
              !.lastOp = Op("cancelTrajectory", FALSE, FALSE)]

cancelTrajectory(s) ==
    [s EXCEPT !.intervals = ClearAnimationTimer(s),
              !.animationTimerRef = NoTimer,
              !.executingRef = FALSE,
              !.isExecuting = FALSE,
              !.trajectory = <<>>,
              !.currentWaypointIndex = 0,
              !.lastOp = Op("cancelTrajectory", FALSE, FALSE)]

(***************************************************************************)
(* Handlers of the user interface and of the socket                        *)
(***************************************************************************)
\* setPos of a user interface handler
SetPos(s, p, writer, name) ==
    [s EXCEPT !.pos = p, !.dirty.pos = TRUE, !.posWriter = writer,
              !.lastOp = Op(name, FALSE, TRUE)]

\* variant: a direct move is refused when isReachable rejects the target
DirectMove_Checked(s, t, p, writer, name) ==
    IF isReachable(t.x, t.y, t.z, t.roll, t.pitch)
    THEN [s EXCEPT !.pos = p, !.dirty.pos = TRUE, !.posWriter = writer,
                   !.lastOp = Request(name, t, TRUE, TRUE)]
    ELSE [s EXCEPT !.lastOp = Request(name, t, TRUE, FALSE)]

\* setPos of a direct move to a target: no plan, no isReachable
DirectMove(s, t, p, writer, name) ==
    [s EXCEPT !.pos = p, !.dirty.pos = TRUE, !.posWriter = writer,
              !.lastOp = Request(name, t, FALSE, TRUE)]

\* onChange of a "Current Position" input: setPos({...pos, [axis]: value})
ChangePosition(s, axis, value) ==
    SetPos(s, [s.rendered.pos EXCEPT ![axis] = value], "user", "changePosition")

\* delta is +0.01 or -0.01, of metres or of degrees; toFixed(3)
adjustValue(s, key, sign) ==
    LET delta == IF key \in {"roll", "pitch"} THEN sign * 10 ELSE sign * 1000
        unit == IF key \in {"roll", "pitch"} THEN 1 ELSE 100
    IN SetPos(s, [s.pos EXCEPT ![key] = toFixed(s.pos[key] + delta, unit)],
              "user", "adjustValue")

\* the pose a direct move writes for a target: radToDeg on roll and pitch
PoseOfTarget(t) ==
    [x |-> t.x, y |-> t.y, z |-> t.z,
     roll |-> radToDeg(t.roll), pitch |-> radToDeg(t.pitch)]

\* onClick of "Copy current position to target": the pose of the render,
\* deg2rad on roll and pitch
copyCurrentToTarget(s) ==
    [s EXCEPT !.targetInput = CurrentPoint(s.rendered.pos),
              !.lastOp = Op("copyCurrentToTarget", FALSE, TRUE)]

handleGoToTarget(s) ==
    IF ~s.interpolationEnabled
    THEN DirectMove(s, s.targetInput, PoseOfTarget(s.targetInput),
                    "target", "handleGoToTarget")
    ELSE startTrajectory(s, s.targetInput, "handleGoToTarget")

PresetTarget(preset) ==
    CASE preset = "HOME" ->
           [x |-> 20000, y |-> 0, z |-> 60000, roll |-> 0, pitch |-> 0]
      [] preset = "INTERMEDIATE" ->
           [x |-> 20000, y |-> 0, z |-> 60000, roll |-> 0, pitch |-> 0]
      [] preset = "PREFLOOR" ->
           [x |-> 25000, y |-> 0, z |-> 35000, roll |-> 0, pitch |-> deg2rad(-75000)]
      [] preset = "FLOOR" ->
           [x |-> 35000, y |-> 0, z |-> 10000, roll |-> 0, pitch |-> deg2rad(-75000)]
      [] preset = "STORAGE" ->
           [x |-> 0, y |-> 0, z |-> 55000, roll |-> 0, pitch |-> deg2rad(100000)]

setPreset(s, preset) ==
    IF s.interpolationEnabled
    THEN startTrajectory(s, PresetTarget(preset), "setPreset")
    ELSE DirectMove(s, PresetTarget(preset), PoseOfTarget(PresetTarget(preset)),
                    "preset", "setPreset")

\* variant: a new step size re-plans the rest of the run that is executing
setStepSize_Replans(s, value) ==
    IF s.executingRef
    THEN [s EXCEPT !.stepSize = value,
                   !.trajectoryRef =
                       generateLinearTrajectory(CurrentPoint(s.pos),
                           s.trajectoryRef[Len(s.trajectoryRef)],
                           value, s.orientationStep)]
    ELSE [s EXCEPT !.stepSize = value]

\* onChange of the sliders of "Interpolation Settings"
setStepSize(s, value) == [s EXCEPT !.stepSize = value]

setOrientationStep(s, value) == [s EXCEPT !.orientationStep = value]

setWaypointRate(s, value) == [s EXCEPT !.waypointRate = value]

\* Number(v): null, "" and false give 0, true gives 1, undefined and a text
\* that is no numeral give NaN
Number(v) ==
    CASE v.kind = "number" -> v.v
      [] v.kind = "undefined" -> NaN
      [] v.kind = "null" -> 0
      [] v.kind = "empty string" -> 0
      [] v.kind = "text" -> NaN
      [] v.kind = "true" -> v.v
      [] v.kind = "false" -> 0

\* nf(v, fallback): Number(v) when it is finite, else the fallback
nf(v, fallback) == IF IsFinite(Number(v)) THEN Number(v) ELSE fallback

\* variant: a pose message is applied whatever the remote control toggle is
onmessage_IgnoresToggle(s, msg) ==
    IF msg.ok /\ msg.type = "pose" /\ msg.hasData
    THEN [s EXCEPT !.updatingFromWS = TRUE,
                   !.pos = [x |-> nf(msg.data.x, s.pos.x),
                            y |-> nf(msg.data.y, s.pos.y),
                            z |-> nf(msg.data.z, s.pos.z),
                            roll |-> nf(msg.data.roll, s.pos.roll),
                            pitch |-> nf(msg.data.pitch, s.pos.pitch)],
                   !.dirty.pos = TRUE,
                   !.posWriter = "remote",
                   !.microtasks = @ + 1,
                   !.lastOp = Op("onmessage", FALSE, TRUE)]
    ELSE [s EXCEPT !.lastOp = Op("onmessage", FALSE, FALSE)]

\* variant: a pose message is applied without looking at msg.data
onmessage_NoDataCheck(s, msg) ==
    IF msg.ok /\ s.rendered.remoteControl /\ msg.type = "pose"
    THEN [s EXCEPT !.updatingFromWS = TRUE,
                   !.pos = [x |-> nf(msg.data.x, s.pos.x),
                            y |-> nf(msg.data.y, s.pos.y),
                            z |-> nf(msg.data.z, s.pos.z),
                            roll |-> nf(msg.data.roll, s.pos.roll),
                            pitch |-> nf(msg.data.pitch, s.pos.pitch)],
                   !.dirty.pos = TRUE,
                   !.posWriter = "remote",
                   !.microtasks = @ + 1,
                   !.lastOp = Op("onmessage", FALSE, TRUE)]
    ELSE [s EXCEPT !.lastOp = Op("onmessage", FALSE, FALSE)]

\* variant: the flag is set and no microtask is queued to clear it
onmessage_FlagLeftSet(s, msg) ==
    IF msg.ok /\ s.rendered.remoteControl /\ msg.type = "pose" /\ msg.hasData
    THEN [s EXCEPT !.updatingFromWS = TRUE,
                   !.pos = [x |-> nf(msg.data.x, s.pos.x),
                            y |-> nf(msg.data.y, s.pos.y),
                            z |-> nf(msg.data.z, s.pos.z),
                            roll |-> nf(msg.data.roll, s.pos.roll),
                            pitch |-> nf(msg.data.pitch, s.pos.pitch)],
                   !.dirty.pos = TRUE,
                   !.posWriter = "remote",
                   !.lastOp = Op("onmessage", FALSE, TRUE)]
    ELSE [s EXCEPT !.lastOp = Op("onmessage", FALSE, FALSE)]

\* ws.onmessage; JSON.parse throws on a text that is not JSON and the catch
\* only logs
onmessage(s, msg) ==
    IF msg.ok /\ s.rendered.remoteControl /\ msg.type = "pose" /\ msg.hasData
    THEN [s EXCEPT !.updatingFromWS = TRUE,
                   !.pos = [x |-> nf(msg.data.x, s.pos.x),
                            y |-> nf(msg.data.y, s.pos.y),
                            z |-> nf(msg.data.z, s.pos.z),
                            roll |-> nf(msg.data.roll, s.pos.roll),
                            pitch |-> nf(msg.data.pitch, s.pos.pitch)],
                   !.dirty.pos = TRUE,
                   !.posWriter = "remote",
                   !.microtasks = @ + 1,
                   !.lastOp = Op("onmessage", FALSE, TRUE)]
    ELSE [s EXCEPT !.lastOp = Op("onmessage", FALSE, FALSE)]

(***************************************************************************)
(* Initial state: the component after it is mounted and its effects ran    *)
(* (the recompute effect set the angles of the initial pose, the pose      *)
(* effect armed its first debounce timer, the socket is connecting)        *)
(***************************************************************************)
InitialPos == [x |-> 15000, y |-> 0, z |-> 35000, roll |-> 0, pitch |-> 0]

InitialTarget == [x |-> 40000, y |-> 0, z |-> 30000, roll |-> 0, pitch |-> 0]

\* the state of the page after the first render
ArmInit ==
    /\ pos = InitialPos
    /\ angles = AnglesOfPose(InitialPos)
    /\ remoteControl = FALSE
    /\ interpolationEnabled = TRUE
    /\ stepSize = 500
    /\ orientationStep = 1000
    /\ waypointRate = 10
    /\ targetInput = InitialTarget
    /\ trajectory = <<>>
    /\ currentWaypointIndex = 0
    /\ isExecuting = FALSE
    /\ trajectoryHistory = <<>>
    /\ trajectoryRef = <<>>
    /\ waypointIndexRef = 0
    /\ executingRef = FALSE
    /\ animationTimerRef = NoTimer
    /\ updatingFromWS = FALSE
    /\ poseTimer = 1
    /\ timeouts = {[id |-> 1, data |-> InitialPos, author |-> "init"]}
    /\ coalesced = 1
    /\ poseCleanup = TRUE
    /\ intervals = {}
    /\ microtasks = 0
    /\ rendered = [pos |-> InitialPos, isExecuting |-> FALSE, remoteControl |-> FALSE]
    /\ dirty = Clean
    /\ wsState = "connecting"
    /\ submitted = <<>>
    /\ sent = <<>>
    /\ posWriter = "init"
    /\ lastOp = Op("mount", FALSE, FALSE)
    /\ ops = 0
    /\ settings = 0

\* no call of the planner is followed step by step
NoCall == [pc |-> "none"]

\* no pose is given to the solver on its own
NotAsked == [pc |-> "none"]

\* no press/release button is followed
NoButton == [button |-> "none"]

\* time is not followed
NoClock == [now |-> 0]

\* the sockets are not followed one by one
NoSockets == [wsRef |-> 0, ws |-> 0, readyState |-> <<>>]

\* the Autonomous page is not open
NoPage == [page |-> "none"]

Init ==
    /\ ArmInit
    /\ planner = NoCall /\ solver = NotAsked /\ actuator = NoButton
    /\ clock = NoClock /\ connection = NoSockets /\ autonomous = NoPage

(***************************************************************************)
(* Steps.  A handler of the user interface runs in a discrete event, whose *)
(* render and effects React flushes before the event ends; the updates of  *)
(* a socket message or of a timer callback are rendered by a later task    *)
(* (Render), after the microtasks the handler queued.                      *)
(***************************************************************************)
\* the state a step starts from: nothing submitted or sent yet by this step
Begin == [State EXCEPT !.submitted = <<>>, !.sent = <<>>]

\* React is idle: no render is pending and no microtask is queued
Idle == ~Dirty /\ microtasks = 0

\* an event that writes the pose or drives the executor
UserEvent == Idle /\ ops < MaxOps

Counted == [Begin EXCEPT !.ops = @ + 1]

\* a change of the settings
SettingEvent == Idle /\ settings < MaxSettings

Setting == [Begin EXCEPT !.settings = @ + 1]

\* the inputs and buttons that are disabled while isExecuting
Editable == ~rendered.isExecuting

\* a start request the model follows: one whose plan is short
Followed(targetPos) ==
    NumSteps(CurrentPoint(rendered.pos), targetPos, stepSize, orientationStep) <= MaxPlan

ChangePositionInput ==
    /\ UserEvent /\ Editable
    /\ \E axis \in DOMAIN EditValues : \E value \in EditValues[axis] :
          Becomes(Commit(ChangePosition(Counted, axis, value)))

AdjustButton ==
    /\ UserEvent /\ Editable
    /\ \E input \in AdjustInputs :
          Becomes(Commit(adjustValue(Counted, input[1], input[2])))

PresetButton ==
    /\ UserEvent /\ Editable
    /\ \E preset \in Presets :
          /\ interpolationEnabled => Followed(PresetTarget(preset))
          /\ Becomes(Commit(setPreset(Counted, preset)))

GoToTargetButton ==
    /\ UserEvent /\ Editable /\ interpolationEnabled
    /\ Followed(targetInput)
    /\ Becomes(Commit(handleGoToTarget(Counted)))

CancelButton ==
    /\ UserEvent /\ rendered.isExecuting /\ Len(trajectory) > 0
    /\ Becomes(Commit(cancelTrajectory(Counted)))

ChangeTargetInput ==
    /\ SettingEvent /\ Editable /\ interpolationEnabled
    /\ \E axis \in DOMAIN TargetValues : \E value \in TargetValues[axis] :
          /\ targetInput[axis] # value
          /\ Becomes(Commit([Setting EXCEPT !.targetInput[axis] = value]))

ToggleInterpolation ==
    /\ SettingEvent
    /\ Becomes(Commit([Setting EXCEPT !.interpolationEnabled = ~@]))

ToggleRemoteControl ==
    /\ SettingEvent
    /\ Becomes(Commit([Setting EXCEPT !.remoteControl = ~@]))

StepSizeSlider ==
    /\ SettingEvent /\ interpolationEnabled
    /\ \E value \in StepSizes :
          /\ stepSize # value
          /\ Becomes(Commit(setStepSize(Setting, value)))

OrientationStepSlider ==
    /\ SettingEvent /\ interpolationEnabled
    /\ \E value \in OrientationSteps :
          /\ orientationStep # value
          /\ Becomes(Commit(setOrientationStep(Setting, value)))

RateSlider ==
    /\ SettingEvent /\ interpolationEnabled
    /\ \E value \in WaypointRates :
          /\ waypointRate # value
          /\ Becomes(Commit(setWaypointRate(Setting, value)))

\* the interval timer fires
Tick ==
    /\ Idle
    /\ intervals # {}
    /\ Becomes(IntervalTick(Begin))

\* a message arrives on the open socket
Message ==
    /\ UserEvent
    /\ wsState = "open"
    /\ \E msg \in InboundMessages : Becomes(onmessage(Counted, msg))

\* queueMicrotask(() => { updatingFromWS.current = false; }), run when the
\* handler that queued it returns
Microtask ==
    /\ microtasks > 0
    /\ Becomes([Begin EXCEPT !.updatingFromWS = FALSE, !.microtasks = @ - 1])

\* React renders the updates of a message or of a tick and runs the effects
Render ==
    /\ RenderPending
    /\ Becomes(Commit(Begin))

\* the 40 ms debounce timeout fires
PoseTimeout ==
    /\ microtasks = 0
    /\ \E t \in timeouts :
          Becomes(sendWS([Begin EXCEPT !.timeouts = @ \ {t}, !.coalesced = 0],
                         PoseMsg(t, coalesced)))

SocketOpens ==
    /\ microtasks = 0
    /\ wsState = "connecting"
    /\ Becomes([Begin EXCEPT !.wsState = "open"])

Next ==
    \/ ChangePositionInput
    \/ AdjustButton
    \/ PresetButton
    \/ GoToTargetButton
    \/ CancelButton
    \/ ChangeTargetInput
    \/ ToggleInterpolation
    \/ ToggleRemoteControl
    \/ StepSizeSlider
    \/ OrientationStepSlider
    \/ RateSlider
    \/ Tick
    \/ Message
    \/ Microtask
    \/ Render
    \/ PoseTimeout
    \/ SocketOpens

Spec == Init /\ [][Next]_vars

\* The same behaviours under the scheduling of the browser: a live interval
\* timer keeps firing, a queued microtask runs, and React renders the updates
\* it has scheduled.
LiveSpec ==
    /\ Init /\ [][Next]_vars
    /\ WF_vars(Tick) /\ WF_vars(Microtask) /\ WF_vars(Render)

(***************************************************************************)
(* The page used with tilted poses: roll and pitch typed into "Current     *)
(* Position", the presets that pitch the tool, and the button that copies  *)
(* the current pose to the target.                                         *)
(***************************************************************************)
\* values typed into the roll and pitch inputs of "Current Position" (degrees)
OrientationValues == [roll |-> {10000}, pitch |-> {-5000}]

\* the presets that pitch the tool
TiltedPresets == {"PREFLOOR", "STORAGE"}

ChangeOrientationInput ==
    /\ UserEvent /\ Editable
    /\ \E axis \in DOMAIN OrientationValues : \E value \in OrientationValues[axis] :
          /\ rendered.pos[axis] # value
          /\ Becomes(Commit(ChangePosition(Counted, axis, value)))

TiltedPresetButton ==
    /\ UserEvent /\ Editable
    /\ \E preset \in TiltedPresets :
          /\ interpolationEnabled => Followed(PresetTarget(preset))
          /\ Becomes(Commit(setPreset(Counted, preset)))

CopyCurrentButton ==
    /\ SettingEvent /\ Editable /\ interpolationEnabled
    /\ targetInput # CurrentPoint(rendered.pos)
    /\ Becomes(Commit(copyCurrentToTarget(Setting)))

UnitsNext ==
    \/ ChangeOrientationInput
    \/ TiltedPresetButton
    \/ CopyCurrentButton
    \/ ChangeTargetInput
    \/ GoToTargetButton
    \/ ToggleInterpolation
    \/ Tick
    \/ Render

UnitsSpec == Init /\ [][UnitsNext]_vars

(***************************************************************************)
(* The page receiving pose messages whose fields are not all numbers       *)
(***************************************************************************)
\* pose messages with fields that are null, "", a boolean, a text, a number
\* too large for a double (1e999, which JSON.parse reads as Infinity), or
\* absent; x, y, z are metres and roll, pitch degrees
CoercedMessages ==
    { Envelope(TRUE, "pose", TRUE, [NoData EXCEPT !.x = JsonNull, !.z = Fin(30000)]),
      Envelope(TRUE, "pose", TRUE, [NoData EXCEPT !.y = EmptyString, !.z = Fin(31000)]),
      Envelope(TRUE, "pose", TRUE, [NoData EXCEPT !.roll = JsonTrue(1000), !.z = Fin(32000)]),
      Envelope(TRUE, "pose", TRUE, [NoData EXCEPT !.z = JsonFalse, !.x = Fin(17000)]),
      Envelope(TRUE, "pose", TRUE,
               [NoData EXCEPT !.x = Text, !.pitch = Fin(Infinity), !.z = Fin(33000)]) }

CoercedMessage ==
    /\ UserEvent
    /\ wsState = "open"
    /\ \E msg \in CoercedMessages : Becomes(onmessage(Counted, msg))

InboundNext ==
    \/ ToggleRemoteControl
    \/ SocketOpens
    \/ CoercedMessage
    \/ Microtask
    \/ Render
    \/ PoseTimeout

InboundSpec == Init /\ [][InboundNext]_vars

(***************************************************************************)
(* The page under remote control receiving poses, among them the pose it   *)
(* is at, between edits of the user and the ticks of a playback            *)
(***************************************************************************)
\* a message with the pose the page starts at, and one with another pose
EchoMessages ==
    { Envelope(TRUE, "pose", TRUE,
               [x |-> Fin(InitialPos.x), y |-> Fin(InitialPos.y), z |-> Fin(InitialPos.z),
                roll |-> Fin(InitialPos.roll), pitch |-> Fin(InitialPos.pitch)]),
      Envelope(TRUE, "pose", TRUE, [NoData EXCEPT !.x = Fin(17000)]) }

\* a pose message arrives while remote control is on
EchoMessage ==
    /\ UserEvent
    /\ wsState = "open" /\ rendered.remoteControl
    /\ \E msg \in EchoMessages : Becomes(onmessage(Counted, msg))

SuppressionNext ==
    \/ ToggleRemoteControl
    \/ SocketOpens
    \/ EchoMessage
    \/ Microtask
    \/ Render
    \/ AdjustButton
    \/ ChangeTargetInput
    \/ GoToTargetButton
    \/ Tick
    \/ PoseTimeout

SuppressionSpec == Init /\ [][SuppressionNext]_vars

(***************************************************************************)
(* The executor called while it is executing.  The buttons of the page are *)
(* disabled during a playback, so here startTrajectory is called as a      *)
(* function, with the closure of the last render, while a timer is         *)
(* installed.                                                              *)
(***************************************************************************)
\* an x no pose of the arm reaches
FarAway == 104000

\* the targets of a call during a playback: the pose of the render (an empty
\* plan), a target out of reach, and the target of the inputs
ReentrantTargets ==
    { CurrentPoint(rendered.pos),
      [targetInput EXCEPT !.x = FarAway],
      targetInput }

StartWhileExecuting ==
    /\ UserEvent /\ executingRef
    /\ \E targetPos \in ReentrantTargets :
          /\ Followed(targetPos) \/ ~AllReachable(PlanFor(State, targetPos))
          /\ Becomes(Commit(startTrajectory(Counted, targetPos, "startTrajectory")))

ExecutorNext ==
    \/ ChangeTargetInput
    \/ StepSizeSlider
    \/ GoToTargetButton
    \/ StartWhileExecuting
    \/ Tick
    \/ Render

ExecutorSpec == Init /\ [][ExecutorNext]_vars

(***************************************************************************)
(* The page under the clock of the window.  Time is counted in units of    *)
(* 5 ms and the clock holds delays, not dates: the time left to each timer *)
(* and the time since the pose last changed.  A timer fires when its delay *)
(* has elapsed, and time does not pass while a timer is due or a render is *)
(* pending.  Two timers that are due at the same time fire in either order.*)
(***************************************************************************)
\* the delay of the pose timeout, 40 ms
Debounce == 8

\* variant: the pose timeout is set to 20 ms
PoseDeadline_HalfWindow(now) == now + 4

\* window.setTimeout(..., 40) called at time now
PoseDeadline(now) == now + Debounce

\* intervalMs = 1000 / waypointRate
Period(rate) == 200 \div rate

\* no pose message was sent yet
NoSend == [quiet |-> Debounce, intermediate |-> FALSE, period |-> 0]

\* the clock after the mount: the first pose timeout is pending.  quiet is
\* the time since the last committed pose change, counted up to the window.
ClockInit ==
    [toDue |-> PoseDeadline(0), toTick |-> 0, period |-> 0,
     quiet |-> 0, lastGap |-> Debounce, sentInGap |-> FALSE,
     sentInLastGap |-> FALSE, last |-> NoSend]

TimedInit ==
    /\ connection = NoSockets /\ autonomous = NoPage
    /\ ArmInit
    /\ planner = NoCall /\ solver = NotAsked /\ actuator = NoButton
    /\ clock = ClockInit

\* a step of the page at the time of the clock: t is the state it leaves.
\* The clock takes the delay of a pose timeout that was armed and of an
\* interval that was installed, and restarts quiet at a committed pose change.
Timed(t) ==
    LET armed == t.coalesced = coalesced + 1
        started == t.animationTimerRef # animationTimerRef
                   /\ t.animationTimerRef # NoTimer
        changed == t.rendered.pos # rendered.pos
    IN /\ ArmBecomes(t)
       /\ clock' = [clock EXCEPT
             !.toDue = IF armed THEN PoseDeadline(0) ELSE @,
             !.period = IF started THEN Period(t.waypointRate) ELSE @,
             !.toTick = IF started THEN Period(t.waypointRate) ELSE @,
             !.quiet = IF changed THEN 0 ELSE @,
             !.lastGap = IF changed THEN clock.quiet ELSE @,
             !.sentInLastGap = IF changed THEN clock.sentInGap ELSE @,
             !.sentInGap = IF changed THEN FALSE ELSE @]
       /\ UNCHANGED <<planner, solver, actuator, connection, autonomous>>

TimedAdjustButton ==
    /\ UserEvent /\ Editable
    /\ \E input \in AdjustInputs :
          \E t \in {Commit(adjustValue(Counted, input[1], input[2]))} : Timed(t)

TimedGoToTargetButton ==
    /\ UserEvent /\ Editable /\ interpolationEnabled
    /\ Followed(targetInput)
    /\ \E t \in {Commit(handleGoToTarget(Counted))} : Timed(t)

\* the interval timer fires when its period has elapsed
TimedTick ==
    /\ Idle
    /\ intervals # {}
    /\ clock.toTick = 0
    /\ \E t \in {IntervalTick(Begin)} : ArmBecomes(t)
    /\ clock' = [clock EXCEPT !.toTick = clock.period]
    /\ UNCHANGED <<planner, solver, actuator, connection, autonomous>>

TimedRender ==
    /\ RenderPending
    /\ \E t \in {Commit(Begin)} : Timed(t)

\* the pose of the timeout t is that of a waypoint before the last one, and
\* not the pose of the last one
Intermediate(t) ==
    /\ \E i \in 1..(Len(trajectoryRef) - 1) : t.data = PoseOfWaypoint(trajectoryRef[i])
    /\ t.data # PoseOfWaypoint(trajectoryRef[Len(trajectoryRef)])

\* the pose timeout fires when its 40 ms have elapsed
TimedPoseTimeout ==
    /\ microtasks = 0
    /\ clock.toDue = 0
    /\ \E t \in timeouts :
          /\ \E r \in {sendWS([Begin EXCEPT !.timeouts = @ \ {t}, !.coalesced = 0],
                              PoseMsg(t, coalesced))} : ArmBecomes(r)
          /\ clock' = [clock EXCEPT
                !.sentInGap = TRUE,
                !.last = [quiet |-> clock.quiet,
                          intermediate |-> Intermediate(t),
                          period |-> clock.period]]
    /\ UNCHANGED <<planner, solver, actuator, connection, autonomous>>

\* 5 ms pass: no timer is due and React has nothing to render
Elapse ==
    /\ Idle
    /\ timeouts # {} => clock.toDue > 0
    /\ intervals # {} => clock.toTick > 0
    /\ clock' = [clock EXCEPT !.toDue = Max(0, @ - 1),
                              !.toTick = Max(0, @ - 1),
                              !.quiet = Min(Debounce, @ + 1)]
    /\ UNCHANGED <<armVars, planner, solver, actuator, connection, autonomous>>

TimedNext ==
    \/ Elapse
    \/ TimedAdjustButton
    \/ CopyCurrentButton
    \/ ChangeTargetInput
    \/ RateSlider
    \/ TimedGoToTargetButton
    \/ TimedTick
    \/ TimedRender
    \/ TimedPoseTimeout
    \/ SocketOpens

TimedSpec == TimedInit /\ [][TimedNext]_vars

(***************************************************************************)
(* generateLinearTrajectory followed statement by statement, for calls     *)
(* with any step parameters, those the sliders cannot produce included     *)
(***************************************************************************)
\* iterations that are followed of a loop whose bound is Infinity
MaxLoop == 4

PlannerStart == CurrentPoint(InitialPos)

\* the same pose, a translation, a rotation, and both
PlannerEnds ==
    {PlannerStart,
     [PlannerStart EXCEPT !.x = @ + 1000],
     [PlannerStart EXCEPT !.roll = @ + 10000],
     [PlannerStart EXCEPT !.x = @ + 1000, !.pitch = @ - 10000]}

PlannerStepSizes == {0, 400, 1000, -500}

PlannerOrientationSteps == {0, 3000}

\* a call that has not run its first statement
Call(start, end, step, orient) ==
    [pc |-> "called", start |-> start, end |-> end, stepSize |-> step,
     orientationStep |-> orient, numSteps |-> 0, i |-> 0, waypoints |-> <<>>]

PlannerInit ==
    /\ ArmInit
    /\ solver = NotAsked
    /\ actuator = NoButton
    /\ clock = NoClock /\ connection = NoSockets /\ autonomous = NoPage
    /\ planner \in {Call(PlannerStart, end, step, orient) :
                       end \in PlannerEnds, step \in PlannerStepSizes,
                       orient \in PlannerOrientationSteps}

\* from the entry to the loop: the distance, the orientation difference, the
\* early return of [] and numSteps
PlannerEnter ==
    /\ planner.pc = "called"
    /\ \E n \in {NumSteps(planner.start, planner.end, planner.stepSize,
                            planner.orientationStep)} :
          planner' = IF n = 0
                     THEN [planner EXCEPT !.pc = "returned"]
                     ELSE [planner EXCEPT !.pc = "loop", !.numSteps = n, !.i = 1]
    /\ UNCHANGED <<armVars, solver, actuator, clock, connection, autonomous>>

\* one iteration of for (let i = 1; i <= numSteps; i++)
PlannerPush ==
    /\ planner.pc = "loop"
    /\ planner.i <= planner.numSteps
    /\ planner.numSteps = Infinity => planner.i <= MaxLoop
    /\ planner' = [planner EXCEPT
                      !.waypoints = Append(@, WaypointAt(planner.start, planner.end,
                                                         planner.i, planner.numSteps)),
                      !.i = @ + 1]
    /\ UNCHANGED <<armVars, solver, actuator, clock, connection, autonomous>>

\* the loop condition fails: return waypoints
PlannerReturn ==
    /\ planner.pc = "loop"
    /\ planner.i > planner.numSteps
    /\ planner' = [planner EXCEPT !.pc = "returned"]
    /\ UNCHANGED <<armVars, solver, actuator, clock, connection, autonomous>>

PlannerNext ==
    \/ PlannerEnter
    \/ PlannerPush
    \/ PlannerReturn

\* a call that has started runs on: the function is synchronous code
PlannerSpec ==
    /\ PlannerInit /\ [][PlannerNext]_vars
    /\ WF_vars(PlannerNext)

(***************************************************************************)
(* isReachable and inverseKinematics applied to a pose, for poses of the   *)
(* whole domain of the two functions.  A non-finite x, y, z or pitch makes *)
(* d NaN or infinite, which isReachable rejects; roll is not read by       *)
(* isReachable, so the non-finite values are tried on roll.                *)
(***************************************************************************)
SolverXs == {-15000, 0, 15000, 40000, 104000}

SolverZs == {-500000, 30000, 35000}

SolverRolls == {0, 50000, NaN, Infinity}

SolverPitches == {0, -130900}

\* a pose (metres, radians) that neither function has been applied to
Pose(x, z, roll, pitch) ==
    [pc |-> "given", x |-> x, y |-> 0, z |-> z, roll |-> roll, pitch |-> pitch,
     reachable |-> FALSE, d |-> 0, clamped |-> 0, angles |-> NoData]

SolverInit ==
    /\ ArmInit
    /\ planner = NoCall
    /\ actuator = NoButton
    /\ clock = NoClock /\ connection = NoSockets /\ autonomous = NoPage
    /\ solver \in {Pose(x, z, roll, pitch) :
                      x \in SolverXs, z \in SolverZs,
                      roll \in SolverRolls, pitch \in SolverPitches}

\* isReachable(x, y, z, roll, pitch)
SolverCheck ==
    /\ solver.pc = "given"
    /\ solver' = [solver EXCEPT
                     !.pc = "checked",
                     !.reachable = isReachable(solver.x, solver.y, solver.z,
                                               solver.roll, solver.pitch)]
    /\ UNCHANGED <<armVars, planner, actuator, clock, connection, autonomous>>

\* inverseKinematics(x, y, z, roll, pitch), with d before and after Math.max
\* and Math.min
SolverSolve ==
    /\ solver.pc = "checked"
    /\ \E d \in {ElbowD(PlanarA(solver.x, solver.y, solver.pitch),
                          PlanarB(solver.z, solver.pitch))} :
          solver' = [solver EXCEPT
                       !.pc = "solved",
                       !.d = d,
                       !.clamped = ClampD(d),
                       !.angles = inverseKinematics(solver.x, solver.y, solver.z,
                                                    solver.roll, solver.pitch)]
    /\ UNCHANGED <<armVars, planner, actuator, clock, connection, autonomous>>

SolverNext ==
    \/ SolverCheck
    \/ SolverSolve

SolverSpec == SolverInit /\ [][SolverNext]_vars

(***************************************************************************)
(* The press/release buttons: gripper (both versions of the arm page),     *)
(* linear actuator, and the HoldButton of the laboratory page (elevator,   *)
(* gates).  A button is followed with a mouse: the press and the release   *)
(* reach the button as a pointer event followed by a mouse event, and a    *)
(* release outside the button does not reach it.                           *)
(***************************************************************************)
\* a button: its page, the type of its messages, the value of a press, and
\* whether it has an onMouseLeave handler
Button(page, type, pressValue, leave) ==
    [page |-> page, type |-> type, pressValue |-> pressValue, onMouseLeave |-> leave]

Buttons ==
    {Button("part_002", "gripper", v, FALSE) : v \in {-1, 1}}
    \cup {Button("arm.tsx", t, v, TRUE) :
             t \in {"gripper", "linear_actuator"}, v \in {-1, 1}}
    \cup {Button("laboratory.tsx", t, v, TRUE) :
             t \in {"elevator", "gate_left", "gate_right"}, v \in {-1, 1}}

ActuatorInit ==
    /\ ArmInit
    /\ planner = NoCall
    /\ solver = NotAsked
    /\ actuator \in {[button |-> b, held |-> FALSE, inside |-> TRUE, last |-> <<>>] :
                        b \in Buttons}
    /\ clock = NoClock /\ connection = NoSockets /\ autonomous = NoPage

\* sendWS({ type, data: v }) for each v of values, in order
RECURSIVE SendAll(_, _, _)
SendAll(s, type, values) ==
    IF values = <<>> THEN s
    ELSE SendAll(sendWS(s, [type |-> type, data |-> Head(values)]), type, Tail(values))

\* the handlers of one gesture send values; last is the last value that was
\* transmitted for the actuator
Gesture(values, held, inside) ==
    /\ \E t \in {SendAll(Begin, actuator.button.type, values)} :
          /\ ArmBecomes(t)
          /\ actuator' = [actuator EXCEPT
                            !.held = held,
                            !.inside = inside,
                            !.last = IF t.sent = <<>> THEN @
                                     ELSE <<t.sent[Len(t.sent)].data>>]
    /\ UNCHANGED <<planner, solver, clock, connection, autonomous>>

\* onPointerDown, then onMouseDown
Press ==
    /\ actuator.inside /\ ~actuator.held
    /\ Gesture(<<actuator.button.pressValue, actuator.button.pressValue>>, TRUE, TRUE)

\* onPointerUp, then onMouseUp
Release ==
    /\ actuator.inside /\ actuator.held
    /\ Gesture(<<0, 0>>, FALSE, TRUE)

\* the pointer leaves the button, held or not: onMouseLeave where there is one
PointerLeaves ==
    /\ actuator.inside
    /\ Gesture(IF actuator.button.onMouseLeave THEN <<0>> ELSE <<>>,
               actuator.held, FALSE)

\* the pointer comes back over the button
PointerEnters ==
    /\ ~actuator.inside
    /\ Gesture(<<>>, actuator.held, TRUE)

\* the mouse button is released away from the button: no handler of it runs
ReleaseOutside ==
    /\ ~actuator.inside /\ actuator.held
    /\ Gesture(<<>>, FALSE, FALSE)

ActuatorNext ==
    \/ Press
    \/ Release
    \/ PointerLeaves
    \/ PointerEnters
    \/ ReleaseOutside
    \/ SocketOpens

ActuatorSpec == ActuatorInit /\ [][ActuatorNext]_vars

(***************************************************************************)
(* The sockets of the socket effect followed one by one: each run of the   *)
(* effect creates a WebSocket, keeps it in its closure as ws and stores it *)
(* in wsRef.current; its cleanup closes the ws of its closure.  wsState is *)
(* the readyState sendWS reads through wsRef.current.                      *)
(***************************************************************************)
\* the page after its mount: one socket, CONNECTING
Mounted == [wsRef |-> 1, ws |-> 1, readyState |-> <<"connecting">>]

\* ws.close(): an open or connecting socket starts its closing handshake
CloseSocket(c, ws) ==
    [c EXCEPT !.readyState[ws] = IF @ \in {"connecting", "open"} THEN "closing" ELSE @]

\* const ws = new WebSocket(wsUrl); wsRef.current = ws
OpenSocket(c) ==
    [wsRef |-> Len(c.readyState) + 1,
     ws |-> Len(c.readyState) + 1,
     readyState |-> Append(c.readyState, "connecting")]

\* variant: the effect returns no cleanup
SocketsEffect_NoCleanup(c) == OpenSocket(c)

\* the cleanup of the last run, then the effect
SocketsEffect(c) == OpenSocket(CloseSocket(c, c.ws))

\* the sockets that are connecting or open
Live(c) == {i \in DOMAIN c.readyState : c.readyState[i] \in {"connecting", "open"}}

\* the readyState of wsRef.current
ReadyState(c) == c.readyState[c.wsRef]

ConnectionInit ==
    /\ ArmInit
    /\ planner = NoCall /\ solver = NotAsked
    /\ actuator = [button |-> Button("part_002", "gripper", 1, FALSE),
                   held |-> FALSE, inside |-> TRUE, last |-> <<>>]
    /\ clock = NoClock /\ autonomous = NoPage
    /\ connection = Mounted

\* the arm takes the step t and the sockets become c
Connected(t, c) ==
    /\ ArmBecomes([t EXCEPT !.wsState = ReadyState(c)])
    /\ connection' = c
    /\ UNCHANGED <<planner, solver, actuator, clock, autonomous>>

\* the toggle of "Remote control": the render runs the socket effect
ToggleRemoteSockets ==
    /\ SettingEvent
    /\ \E t \in {Commit([Setting EXCEPT !.remoteControl = ~@])} :
          Connected(t, SocketsEffect(connection))

\* onopen of a connecting socket
SocketConnects ==
    /\ microtasks = 0
    /\ \E i \in DOMAIN connection.readyState :
          /\ connection.readyState[i] = "connecting"
          /\ Connected(Begin, [connection EXCEPT !.readyState[i] = "open"])

\* onclose of a socket that was closed
SocketClosed ==
    /\ microtasks = 0
    /\ \E i \in DOMAIN connection.readyState :
          /\ connection.readyState[i] = "closing"
          /\ Connected(Begin, [connection EXCEPT !.readyState[i] = "closed"])

ConnectionNext ==
    \/ ToggleRemoteSockets
    \/ SocketConnects
    \/ SocketClosed
    \/ AdjustButton
    \/ PoseTimeout
    \/ Press
    \/ Release

ConnectionSpec == ConnectionInit /\ [][ConnectionNext]_vars

(***************************************************************************)
(* The Autonomous page (Autonomous.tsx) and autonomousService.  A handler  *)
(* runs up to its await in the click that calls it and reads the state of  *)
(* the last render; its continuation runs when the response arrives, and   *)
(* React renders the updates of a continuation in a later step.            *)
(***************************************************************************)
\* number of requests the page issues in one behaviour
MaxRequests == 3

\* texts of the latitude and longitude inputs
CoordinateTexts == {"", "abc", "19.4"}

\* parseFloat of a text of the inputs, in thousandths
parseFloat(text) ==
    CASE text = "19.4" -> 19400
      [] OTHER -> NaN

\* what becomes of a request: a body with status 'success', a body with
\* another status, a response that is not ok, or no response at all
Responses == {"success", "error", "http", "network"}

\* what the await of the service call gives: the status of the body, or
\* "thrown" when fetch rejects or the service throws on !response.ok
Outcome(response) ==
    IF response \in {"http", "network"} THEN "thrown" ELSE response

Requested(api) == [kind |-> "request", api |-> api, outcome |-> "none"]

Responded(api, outcome) == [kind |-> "response", api |-> api, outcome |-> outcome]

\* the page after its mount
PageInit ==
    [page |-> "open",
     latitude |-> "", longitude |-> "", selectedState |-> 0,
     coordinatesHistory |-> <<>>,
     loading |-> FALSE, message |-> "null", coordinatesSent |-> FALSE,
     rendered |-> [coordinatesSent |-> FALSE, loading |-> FALSE],
     pending |-> {},
     events |-> <<>>,
     lastOp |-> "mount"]

\* number of requests issued so far
Issued(a) == Cardinality({i \in DOMAIN a.events : a.events[i].kind = "request"})

\* fetch(...) is called: the request is in flight
Fetch(a, api) ==
    [a EXCEPT !.pending = @ \cup {[api |-> api, id |-> Issued(a) + 1]},
              !.events = Append(@, Requested(api))]

\* React commits the state
PageCommit(a) ==
    [a EXCEPT !.rendered = [coordinatesSent |-> a.coordinatesSent,
                            loading |-> a.loading]]

\* [newCoordinate, ...prev].slice(0, 10)
Remembered(history, coordinate) ==
    SubSeq(<<coordinate>> \o history, 1, Min(10, Len(history) + 1))

\* handleSendCoordinates up to its await
handleSendCoordinates(a) ==
    IF a.latitude = "" \/ a.longitude = ""
    THEN [a EXCEPT !.message = "error", !.lastOp = "handleSendCoordinates"]
    ELSE IF parseFloat(a.latitude) = NaN \/ parseFloat(a.longitude) = NaN
    THEN [a EXCEPT !.message = "error", !.lastOp = "handleSendCoordinates"]
    ELSE Fetch([a EXCEPT !.loading = TRUE, !.message = "null",
                         !.lastOp = "handleSendCoordinates"],
               "input_target")

\* variant: any body that was received enables the second step
afterSetInputTarget_AnyBody(a, response) ==
    LET outcome == Outcome(response)
        result == IF outcome = "success"
                  THEN [a EXCEPT !.message = "success",
                                 !.coordinatesSent = TRUE,
                                 !.coordinatesHistory =
                                     Remembered(@, <<parseFloat(a.latitude),
                                                     parseFloat(a.longitude)>>)]
                  ELSE IF outcome = "error"
                  THEN [a EXCEPT !.message = "error", !.coordinatesSent = TRUE]
                  ELSE [a EXCEPT !.message = "error"]
    IN [result EXCEPT !.loading = FALSE,
                      !.events = Append(@, Responded("input_target", outcome)),
                      !.lastOp = "afterSetInputTarget"]

\* handleSendCoordinates from its await on: try, catch and finally
afterSetInputTarget(a, response) ==
    LET outcome == Outcome(response)
        result == IF outcome = "success"
                  THEN [a EXCEPT !.message = "success",
                                 !.coordinatesSent = TRUE,
                                 !.coordinatesHistory =
                                     Remembered(@, <<parseFloat(a.latitude),
                                                     parseFloat(a.longitude)>>)]
                  ELSE [a EXCEPT !.message = "error"]
    IN [result EXCEPT !.loading = FALSE,
                      !.events = Append(@, Responded("input_target", outcome)),
                      !.lastOp = "afterSetInputTarget"]

\* handleSetState up to its await, with the coordinatesSent of the render
handleSetState(a) ==
    IF ~a.rendered.coordinatesSent
    THEN [a EXCEPT !.message = "error", !.lastOp = "handleSetState"]
    ELSE Fetch([a EXCEPT !.loading = TRUE, !.message = "null",
                         !.lastOp = "handleSetState"],
               "init_state")

\* handleSetState from its await on
afterSetInitState(a, response) ==
    [a EXCEPT !.message = IF Outcome(response) = "success" THEN "success" ELSE "error",
              !.loading = FALSE,
              !.events = Append(@, Responded("init_state", Outcome(response))),
              !.lastOp = "afterSetInitState"]

AutonomousInit ==
    /\ ArmInit
    /\ planner = NoCall /\ solver = NotAsked /\ actuator = NoButton
    /\ clock = NoClock /\ connection = NoSockets
    /\ autonomous = PageInit

\* the page takes the step a
PageBecomes(a) ==
    /\ autonomous' = a
    /\ UNCHANGED <<armVars, planner, solver, actuator, clock, connection>>

\* a continuation left updates that React has not rendered yet
PageDirty ==
    autonomous.rendered # [coordinatesSent |-> autonomous.coordinatesSent,
                           loading |-> autonomous.loading]

\* onChange of the latitude and longitude inputs, disabled while loading
TypeCoordinates ==
    /\ ~PageDirty /\ ~autonomous.rendered.loading
    /\ \E field \in {"latitude", "longitude"} : \E text \in CoordinateTexts :
          /\ autonomous[field] # text
          /\ PageBecomes(PageCommit([autonomous EXCEPT ![field] = text,
                                                       !.lastOp = "onChange"]))

\* onChange of the select, disabled until coordinatesSent and while loading
SelectState ==
    /\ ~PageDirty
    /\ autonomous.rendered.coordinatesSent /\ ~autonomous.rendered.loading
    /\ \E state \in {0, 1} :
          /\ autonomous.selectedState # state
          /\ PageBecomes(PageCommit([autonomous EXCEPT !.selectedState = state,
                                                       !.lastOp = "onChange"]))

\* "Enviar Coordenadas", disabled while loading
SendCoordinatesButton ==
    /\ ~PageDirty /\ ~autonomous.rendered.loading
    /\ Issued(autonomous) < MaxRequests
    /\ PageBecomes(PageCommit(handleSendCoordinates(autonomous)))

\* handleSetState is called, whether its button is enabled or not
SetStateCalled ==
    /\ ~PageDirty
    /\ Issued(autonomous) < MaxRequests
    /\ PageBecomes(PageCommit(handleSetState(autonomous)))

\* the await of a request in flight ends
ResponseArrives ==
    /\ ~PageDirty
    /\ \E request \in autonomous.pending : \E response \in Responses :
          LET a == [autonomous EXCEPT !.pending = @ \ {request}]
          IN IF request.api = "input_target"
             THEN PageBecomes(afterSetInputTarget(a, response))
             ELSE PageBecomes(afterSetInitState(a, response))

\* React renders the updates of a continuation
PageRender ==
    /\ PageDirty
    /\ PageBecomes(PageCommit([autonomous EXCEPT !.lastOp = "render"]))

AutonomousNext ==
    \/ TypeCoordinates
    \/ SelectState
    \/ SendCoordinatesButton
    \/ SetStateCalled
    \/ ResponseArrives
    \/ PageRender

AutonomousSpec == AutonomousInit /\ [][AutonomousNext]_vars

(***************************************************************************)
(* Properties of the trajectory executor                                   *)
(***************************************************************************)
\* the handlers that are given a target
StartRequests == {"handleGoToTarget", "setPreset"}

\* C1: a go-to-target request made while Idle whose plan holds a waypoint that
\* isReachable rejects is refused as a whole: the executor stays Idle, no
\* timer is started, and pose, angles, stored sequence, index and history
\* stay as they were.
C1_RejectedRequestChangesNothing ==
    [][(/\ ops' = ops + 1
        /\ lastOp'.op \in StartRequests
        /\ interpolationEnabled
        /\ ~executingRef
        /\ ~AllReachable(PlanFor(State, lastOp'.target)))
       => /\ ~executingRef' /\ ~isExecuting'
          /\ UNCHANGED <<pos, angles, intervals, animationTimerRef,
                         trajectoryRef, trajectory, waypointIndexRef,
                         currentWaypointIndex, trajectoryHistory>>]_vars

\* a request was refused whose plan starts with a reachable waypoint and
\* holds an unreachable one
C1_Witness ==
    /\ lastOp.op \in StartRequests /\ lastOp.checked /\ ~lastOp.accepted
    /\ ~executingRef /\ intervals = {}
    /\ AllReachable_FirstOnly(PlanFor(State, lastOp.target))
    /\ ~AllReachable(PlanFor(State, lastOp.target))

\* C2: a waypoint of a sequence is played back only if every waypoint of that
\* sequence was accepted by isReachable before the first one was applied: as
\* soon as a timer is installed, and as long as applied waypoints are in the
\* history, the whole stored sequence is reachable.
C2_PlayedSequenceIsValidated ==
    (intervals # {} \/ Len(trajectoryHistory) > 1)
        => \A k \in 1..Len(trajectoryRef) :
              isReachable(trajectoryRef[k].x, trajectoryRef[k].y, trajectoryRef[k].z,
                          trajectoryRef[k].roll, trajectoryRef[k].pitch)

\* a tick has applied a waypoint of a running sequence
C2_Witness ==
    /\ executingRef /\ Len(trajectoryHistory) > 1
    /\ posWriter = "tick" /\ pos = PoseOfWaypoint(trajectoryRef[waypointIndexRef])

\* C3: once the executor is not executing (after cancelTrajectory in
\* particular) no waypoint is applied and the waypoint index does not move,
\* until a new trajectory is started.
C3_NoTickAfterCancel ==
    [][(~executingRef /\ ~executingRef')
       => /\ waypointIndexRef' = waypointIndexRef
          /\ trajectoryHistory' = trajectoryHistory
          /\ lastOp'.op # "tick"]_vars

\* cancelTrajectory was called in the middle of a run
C3_Witness ==
    /\ lastOp.op = "cancelTrajectory"
    /\ ~executingRef
    /\ waypointIndexRef > 0 /\ waypointIndexRef < Len(trajectoryRef)

\* C4: the executor is never Idle (by the ref, by the state or by what is
\* rendered) while a playback timer is live or its handle is held.
C4_IdleHasNoTimer ==
    (~executingRef \/ ~isExecuting \/ ~rendered.isExecuting)
        => (intervals = {} /\ animationTimerRef = NoTimer)

\* a run ended by natural completion
C4_Witness ==
    /\ lastOp.op = "tickDone" /\ ~executingRef /\ ~isExecuting
    /\ waypointIndexRef = Len(trajectoryRef) /\ Len(trajectoryRef) > 0

C6_AppliedInOrder ==
    Len(trajectoryHistory) > 0 =>
        /\ waypointIndexRef <= Len(trajectoryRef)
        /\ Len(trajectoryHistory) = waypointIndexRef + 1
        /\ \A k \in 1..waypointIndexRef :
              trajectoryHistory[k + 1] = trajectoryRef[k]

\* two ticks of a run have applied the first two waypoints
C6_Witness ==
    /\ executingRef /\ waypointIndexRef >= 2
    /\ trajectoryRef[1] # trajectoryRef[2]
    /\ lastOp.op = "tick"

(***************************************************************************)
(* Properties of the sync channel and of the pose model                    *)
(***************************************************************************)
\* C7: with remote authorship enabled, the pose-change notification induced
\* by an inbound pose message finds the suppression flag still set, arms no
\* debounce timer for the inbound value, and no outbound pose message that
\* carries the inbound value is sent.
C7_InboundPoseIsNotEchoed ==
    /\ (dirty.pos /\ posWriter = "remote" /\ microtasks = 0) => updatingFromWS
    /\ \A t \in timeouts : t.author # "remote"
    /\ \A i \in 1..Len(sent) :
          ~(sent[i].type = "pose" /\ sent[i].author = "remote")

\* C8: whenever no handler runs and no render is pending, the joint angles
\* are inverseKinematics of the current pose, whoever wrote the pose and
\* whichever state the executor is in.
C8_AnglesFollowPose ==
    Idle => angles = AnglesOfPose(pos)

\* C9: while the executor is Executing only its ticks modify the pose: no user
\* edit, increment button, preset, go-to-target or inbound pose message does.
C9_OnlyTicksWriteWhileExecuting ==
    [][(executingRef /\ pos' # pos) => lastOp'.op = "tick"]_vars

\* C10: a target of go-to-target or of a preset is accepted (becomes the live
\* pose, or the end of a started trajectory) only after isReachable was
\* invoked on it and returned true.
C10_TargetsPassIsReachable ==
    (lastOp.op \in StartRequests /\ lastOp.accepted) => lastOp.checked

PoseWriters == {"changePosition", "adjustValue"}

\* C12: every recompute of the joint angles hands exactly one joint_angles
\* message with the recomputed angles to sendWS at the render that commits
\* it, with no debounce and whatever the suppression flag, the remote control
\* toggle and the author of the pose are: the angles a tick set are submitted
\* at the render of that tick, and the angles the recompute effect derives
\* from a committed pose change (a remotely authored one included) in the
\* step that commits the pose; no other joint_angles message is submitted.
C12_EveryRecomputeIsSubmitted ==
    [][LET tickAngles == dirty.angles /\ ~dirty'.angles
           poseWritten ==
               \/ dirty.pos
               \/ /\ ops' = ops + 1
                  /\ \/ lastOp'.op \in PoseWriters
                     \/ /\ lastOp'.op \in StartRequests
                        /\ lastOp'.accepted /\ ~lastOp'.checked
           recomputed == poseWritten /\ ~dirty'.pos /\ ~executingRef'
           expected == (IF tickAngles THEN <<angles>> ELSE <<>>)
                       \o (IF recomputed THEN <<angles'>> ELSE <<>>)
           msgs == SelectSeq(submitted', LAMBDA m : m.type = "joint_angles")
       IN /\ Len(msgs) = Len(expected)
          /\ \A i \in 1..Len(msgs) : msgs[i].data = expected[i]
          /\ recomputed => angles' = AnglesOfPose(pos')]_vars

\* the render of an inbound remote pose has recomputed the angles and handed
\* them to sendWS
C12_Witness ==
    /\ posWriter = "remote" /\ lastOp.op = "onmessage" /\ lastOp.accepted
    /\ ~Dirty /\ remoteControl /\ pos # InitialPos
    /\ Len(submitted) = 1
    /\ submitted[1] = JointAnglesMsg(AnglesOfPose(pos))
    /\ submitted[1].data = angles

\* what onmessage leaves behind when it drops an envelope: nothing but the
\* record of its own run
Dropped(s) == [s EXCEPT !.lastOp = Op("onmessage", FALSE, FALSE)]

\* C13: while the remote control toggle is off an inbound pose message
\* changes nothing (pose, angles, suppression flag, pending timeout, queued
\* microtasks and pending renders stay as they were) and nothing is handed to
\* sendWS; an envelope of another kind is handled the same way whether the
\* toggle is on or off.
C13_ToggleOffIgnoresPose ==
    [][\A s \in {Counted} : \A on \in {[s EXCEPT !.rendered.remoteControl = TRUE]} :
          /\ \A msg \in InboundMessages :
                /\ ~rendered.remoteControl => onmessage(s, msg) = Dropped(s)
                /\ msg.type # "pose" => onmessage(on, msg) = Dropped(on)
          /\ (lastOp'.op = "onmessage" /\ ops' = ops + 1 /\ ~rendered.remoteControl)
                => (State' = Dropped(s) /\ submitted' = <<>>)]_vars

\* a message arrived on the open socket while the toggle was off and was
\* dropped, the pose being the one the user had set
C13_Witness ==
    /\ lastOp.op = "onmessage" /\ ~lastOp.accepted
    /\ ~rendered.remoteControl /\ ~remoteControl /\ wsState = "open"
    /\ posWriter = "user" /\ angles = AnglesOfPose(pos)

\* C14: a payload handed to sendWS while the socket is not open is dropped
\* and is not transmitted later: what a step transmits is what that same
\* step handed to sendWS, once each and only with the socket open, and the
\* step that opens the socket transmits nothing.
C14_DroppedWhileNotOpen ==
    [][/\ sent' = <<>> \/ sent' = submitted'
       /\ sent' # <<>> => (wsState = "open" /\ wsState' = "open")
       /\ wsState' # "open" => sent' = <<>>
       /\ (wsState # "open" /\ wsState' = "open")
             => (sent' = <<>> /\ submitted' = <<>>)]_vars

\* the recomputed angles of a user edit were handed to sendWS while the
\* socket was connecting, and nothing was transmitted
C14_Witness ==
    /\ wsState = "connecting" /\ sent = <<>>
    /\ lastOp.op \in PoseWriters
    /\ Len(submitted) = 1 /\ submitted[1] = JointAnglesMsg(angles)

\* C15: a malformed envelope (text that is no JSON, missing or wrong type,
\* missing data) is dropped by the handler, which returns normally: pose,
\* angles, execution state, waypoint index, stored sequence and timers are
\* unchanged, and a well-formed message that follows is handled exactly as it
\* would have been without it.
C15_MalformedIsDropped ==
    \A s \in {Counted} : \A bad \in Malformed :
        /\ onmessage(s, bad) = Dropped(s)
        /\ \A msg \in InboundMessages \ Malformed :
              onmessage(onmessage(s, bad), msg) = onmessage(s, msg)

\* an envelope was dropped while the remote control toggle was on and a
\* trajectory was executing, which goes on
C15_Witness ==
    /\ lastOp.op = "onmessage" /\ ~lastOp.accepted
    /\ rendered.remoteControl /\ wsState = "open"
    /\ executingRef /\ intervals # {} /\ waypointIndexRef < Len(trajectoryRef)

\* C16: an accepted sequence is never changed while its run lasts and is
\* consumed in order: whatever happens while Executing (the step size,
\* orientation step and rate sliders and the interpolation toggle included)
\* the sequence the ticks read stays the one that was validated, and the
\* index stays or moves to the next waypoint.
C16_ActiveSequenceIsImmutable ==
    [][(executingRef /\ executingRef') =>
          /\ trajectoryRef' = trajectoryRef
          /\ waypointIndexRef' \in {waypointIndexRef, waypointIndexRef + 1}
          /\ AllReachable(trajectoryRef')]_vars

\* a tick applied a waypoint of the accepted sequence after the settings had
\* been changed during the run: the settings would now plan another sequence
\* from the same start to the same end
C16_Witness ==
    /\ executingRef /\ lastOp.op = "tick" /\ waypointIndexRef >= 1
    /\ settings >= 1
    /\ trajectoryRef # generateLinearTrajectory(trajectoryHistory[1],
                           trajectoryRef[Len(trajectoryRef)],
                           stepSize, orientationStep)

\* C17: with the timer firing fairly, an accepted trajectory does not stay
\* Executing for ever: the executor returns to Idle, either by a cancel or,
\* when nobody cancels, after its ticks have applied every waypoint of the
\* sequence once, in order.
C17_RunEnds ==
    executingRef ~>
        (/\ ~executingRef /\ intervals = {}
         /\ \/ lastOp.op = "cancelTrajectory"
            \/ /\ lastOp.op = "tickDone"
               /\ waypointIndexRef = Len(trajectoryRef)
               /\ Len(trajectoryHistory) = Len(trajectoryRef) + 1
               /\ \A k \in 1..Len(trajectoryRef) :
                     trajectoryHistory[k + 1] = trajectoryRef[k])

\* a run of three waypoints ended by itself, every waypoint applied
C17_Witness ==
    /\ lastOp.op = "tickDone" /\ ~executingRef /\ ~isExecuting
    /\ Len(trajectoryRef) = 3 /\ waypointIndexRef = 3
    /\ Len(trajectoryHistory) = 4
    /\ pos = PoseOfWaypoint(trajectoryRef[3])

(***************************************************************************)
(* Properties of the planner                                               *)
(***************************************************************************)
\* the translation distance of the followed call
PlannerDist ==
    Norm3Ceil(planner.end.x - planner.start.x, planner.end.y - planner.start.y,
              planner.end.z - planner.start.z)

\* C18: every call of generateLinearTrajectory returns, whatever start, end,
\* stepSize and orientationStep are, a step of zero included.
C18_EveryCallReturns == <>(planner.pc = "returned")

\* C19: a call whose start and end differ in position returns exactly
\* max(2, ceil(dist / stepSize)) waypoints, whatever the orientation
\* difference and the orientation step are.
C19_TranslationFixesTheCount ==
    (planner.pc = "returned" /\ PlannerDist > 0)
        => Len(planner.waypoints) = Max(2, CeilQuot(PlannerDist, planner.stepSize))

\* a returned call over a translation with a rotation, the orientation step
\* being zero: three waypoints for 0.01 m at 0.004 m
C19_Witness ==
    /\ planner.pc = "returned"
    /\ PlannerDist = 1000 /\ planner.stepSize = 400
    /\ planner.end.pitch # planner.start.pitch
    /\ planner.orientationStep = 0
    /\ Len(planner.waypoints) = 3

\* C20: a call with identical start and end returns the empty sequence,
\* whatever the step parameters are.
C20_SamePoseEmptyPlan ==
    (planner.pc \in {"loop", "returned"} /\ planner.start = planner.end)
        => (planner.pc = "returned" /\ planner.waypoints = <<>>)

\* a returned call on one pose with both steps zero
C20_Witness ==
    /\ planner.pc = "returned"
    /\ planner.start = planner.end
    /\ planner.stepSize = 0 /\ planner.orientationStep = 0
    /\ planner.waypoints = <<>>

\* the five axes of a point
Axes == {"x", "y", "z", "roll", "pitch"}

PlannerMaxOrient ==
    Max(Abs(planner.end.roll - planner.start.roll),
        Abs(planner.end.pitch - planner.start.pitch))

\* C29: a call whose start and end have one position and differ in roll or
\* pitch returns exactly max(2, ceil(maxOrient / orientationStep)) waypoints,
\* whatever stepSize is.
C29_RotationFixesTheCount ==
    (planner.pc = "returned" /\ PlannerDist = 0 /\ PlannerMaxOrient > 0)
        => Len(planner.waypoints)
              = Max(2, CeilQuot(PlannerMaxOrient, planner.orientationStep))

\* a returned call over a rotation in place of 0.1 rad at 0.03 rad, the step
\* size being zero: four waypoints
C29_Witness ==
    /\ planner.pc = "returned"
    /\ PlannerDist = 0 /\ PlannerMaxOrient = 10000
    /\ planner.orientationStep = 3000 /\ planner.stepSize = 0
    /\ Len(planner.waypoints) = 4

(***************************************************************************)
(* Properties of the direct moves and of the executor at rest              *)
(***************************************************************************)
\* C25: with interpolation disabled, a go-to-target request and a preset
\* selection write the target to the live pose without any reachability
\* check, for every target, those that isReachable rejects included.  The
\* preset is followed as the step it is; handleGoToTarget, whose button is
\* rendered only while interpolation is enabled, is applied to each state.
C25_DirectMoveSkipsReachability ==
    [][/\ ~interpolationEnabled =>
             \A s \in {handleGoToTarget(Counted)} :
                 /\ s.pos = PoseOfTarget(targetInput)
                 /\ s.lastOp.accepted /\ ~s.lastOp.checked
                 /\ s.executingRef = executingRef /\ s.intervals = intervals
       /\ (~interpolationEnabled /\ ops' = ops + 1 /\ lastOp'.op = "setPreset") =>
             /\ pos' = PoseOfTarget(lastOp'.target)
             /\ lastOp'.accepted /\ ~lastOp'.checked
             /\ executingRef' = executingRef /\ intervals' = intervals]_vars

\* a preset was written directly while the target input holds a target that
\* isReachable rejects
C25_Witness ==
    /\ ~interpolationEnabled
    /\ lastOp.op = "setPreset" /\ lastOp.accepted /\ ~lastOp.checked
    /\ posWriter = "preset" /\ pos = PoseOfTarget(lastOp.target)
    /\ ~isReachable(targetInput.x, targetInput.y, targetInput.z,
                    targetInput.roll, targetInput.pitch)

\* C26: a start request whose target equals the current pose is a no-op: the
\* executor stays Idle, no timer is started, nothing is sent, pose, angles,
\* sequence, index and history are unchanged, and the isReachable loop, the
\* only place that reports a rejection, is not entered.
C26_SamePoseRequestIsNoOp ==
    [][(/\ ops' = ops + 1
        /\ lastOp'.op \in StartRequests
        /\ interpolationEnabled
        /\ ~executingRef
        /\ lastOp'.target = CurrentPoint(rendered.pos))
       => /\ ~executingRef' /\ ~isExecuting'
          /\ ~lastOp'.checked
          /\ sent' = <<>> /\ submitted' = <<>>
          /\ UNCHANGED <<pos, angles, intervals, animationTimerRef, timeouts,
                         trajectoryRef, trajectory, waypointIndexRef,
                         currentWaypointIndex, trajectoryHistory>>]_vars

\* a preset was asked for, with interpolation, while the arm is at that preset
C26_Witness ==
    /\ lastOp.op = "setPreset" /\ ~lastOp.checked /\ ~lastOp.accepted
    /\ interpolationEnabled
    /\ lastOp.target = CurrentPoint(pos)
    /\ posWriter = "preset"
    /\ ~executingRef /\ intervals = {}

\* C27: the active waypoint sequence is held only while the executor is
\* Executing: in every Idle state, reached by completion or by cancellation,
\* the executor holds no sequence.
C27_IdleHoldsNoSequence ==
    (~executingRef /\ ~isExecuting) => (trajectoryRef = <<>> /\ trajectory = <<>>)

\* C35: natural completion is detected one tick after the last waypoint is
\* applied.  The index starts at 0 and only a tick that applies a waypoint
\* moves it, by one; such a tick, the one of the last waypoint included,
\* leaves the executor Executing with its timer; the tick that ends the run
\* finds the index at n and applies nothing.  A trajectory of n waypoints
\* thus takes n + 1 ticks, and between the last two the executor is still
\* Executing.
C35_CompletionOneTickLater ==
    [][/\ (ops' = ops + 1 /\ lastOp'.op \in StartRequests /\ lastOp'.accepted
              /\ lastOp'.checked)
            => waypointIndexRef' = 0
       /\ (waypointIndexRef' # waypointIndexRef /\ waypointIndexRef' # 0)
            => /\ waypointIndexRef' = waypointIndexRef + 1
               /\ lastOp'.op = "tick"
               /\ waypointIndexRef < Len(trajectoryRef)
               /\ Len(trajectoryHistory') = Len(trajectoryHistory) + 1
               /\ executingRef' = executingRef /\ isExecuting' = isExecuting
               /\ intervals' = intervals /\ animationTimerRef' = animationTimerRef
       /\ (executingRef /\ ~executingRef' /\ lastOp'.op = "tickDone")
            => /\ waypointIndexRef = Len(trajectoryRef)
               /\ waypointIndexRef' = waypointIndexRef
               /\ pos' = pos /\ trajectoryHistory' = trajectoryHistory
       /\ (executingRef' /\ waypointIndexRef' = Len(trajectoryRef'))
            => isExecuting' /\ animationTimerRef' \in intervals']_vars

\* the last of two waypoints was applied and rendered: the pose is that of
\* the last waypoint, the executor is still Executing with its timer, and
\* the inputs are still disabled
C35_Witness ==
    /\ executingRef /\ isExecuting /\ rendered.isExecuting
    /\ Len(trajectoryRef) = 2 /\ waypointIndexRef = 2
    /\ Len(trajectoryHistory) = 3
    /\ pos = PoseOfWaypoint(trajectoryRef[2])
    /\ ~Dirty /\ animationTimerRef \in intervals

\* C40: between handlers executingRef is set exactly when animationTimerRef
\* holds a handle, the handle it holds is that of a live timer, and the
\* isExecuting state agrees with the ref: the executor is never executing
\* with nothing to drive it and never holds a timer while it is not
\* executing.
C40_ExecutingIffTimerHeld ==
    /\ executingRef <=> animationTimerRef # NoTimer
    /\ executingRef => animationTimerRef \in intervals
    /\ ~executingRef => intervals = {}
    /\ isExecuting <=> executingRef

\* a playback was cancelled after a tick had applied a waypoint: neither flag
\* nor handle nor timer is left
C40_Witness ==
    /\ lastOp.op = "cancelTrajectory"
    /\ Len(trajectoryHistory) >= 2 /\ waypointIndexRef >= 1
    /\ ~executingRef /\ ~isExecuting
    /\ animationTimerRef = NoTimer /\ intervals = {}

(***************************************************************************)
(* Properties of the units of roll and pitch                               *)
(***************************************************************************)
\* a pose of the page (degrees) with roll and pitch put into radians
InRadians(p) ==
    [x |-> p.x, y |-> p.y, z |-> p.z,
     roll |-> deg2rad(p.roll), pitch |-> deg2rad(p.pitch)]

\* C31: roll and pitch are degrees in the pose and radians in the calls of
\* inverseKinematics and isReachable, in the waypoints and in the target
\* input, and every transfer converts: the recompute of the angles, the
\* start of a trajectory, the tick, the direct move of a preset and the copy
\* of the current pose to the target.
C31_UnitsConvertedOnEveryPath ==
    [][/\ (rendered'.pos # rendered.pos /\ ~executingRef')
            => angles' = inverseKinematics(pos'.x, pos'.y, pos'.z,
                                           deg2rad(pos'.roll), deg2rad(pos'.pitch))
       /\ (ops' = ops + 1 /\ lastOp'.op \in StartRequests
              /\ lastOp'.checked /\ lastOp'.accepted)
            => /\ trajectoryHistory' = <<InRadians(rendered.pos)>>
               /\ trajectoryRef'[Len(trajectoryRef')] = lastOp'.target
               /\ \A i \in 1..Len(trajectoryRef') :
                     isReachable(trajectoryRef'[i].x, trajectoryRef'[i].y,
                                 trajectoryRef'[i].z, trajectoryRef'[i].roll,
                                 trajectoryRef'[i].pitch)
       /\ (waypointIndexRef' = waypointIndexRef + 1)
            => \E wp \in {trajectoryRef[waypointIndexRef + 1]} :
                  /\ pos'.roll = toFixed(radToDeg(wp.roll), 10)
                  /\ pos'.pitch = toFixed(radToDeg(wp.pitch), 10)
                  /\ angles' = inverseKinematics(wp.x, wp.y, wp.z, wp.roll, wp.pitch)
       /\ (ops' = ops + 1 /\ lastOp'.op \in StartRequests
              /\ ~lastOp'.checked /\ lastOp'.accepted)
            => /\ pos'.roll = radToDeg(lastOp'.target.roll)
               /\ pos'.pitch = radToDeg(lastOp'.target.pitch)
               /\ pos'.x = lastOp'.target.x /\ pos'.y = lastOp'.target.y
               /\ pos'.z = lastOp'.target.z
       /\ (lastOp' # lastOp /\ lastOp'.op = "copyCurrentToTarget")
            => targetInput' = InRadians(rendered.pos)]_vars

\* a trajectory started from a pose rolled by 10 degrees has played its
\* first waypoint: the history starts with the roll in radians and the pose
\* holds the roll of the waypoint in degrees
C31_Witness ==
    /\ executingRef /\ waypointIndexRef = 1
    /\ trajectoryHistory[1].roll = 17453
    /\ trajectoryRef[1].roll # 0
    /\ pos.roll = toFixed(radToDeg(trajectoryRef[1].roll), 10)
    /\ pos.roll \notin {0, 10000, trajectoryRef[1].roll}

(***************************************************************************)
(* Properties of the debounce under the clock                              *)
(***************************************************************************)
\* C32: an outbound pose message is sent only after the pose has stayed
\* unchanged for the whole 40 ms window; no message is sent between two pose
\* changes that are less than 40 ms apart, and a playback faster than 25 Hz
\* sends none between its first and its last waypoint, so that no
\* intermediate waypoint is transmitted.
C32_SentOnlyAfterQuietWindow ==
    /\ clock.last.quiet >= Debounce
    /\ clock.lastGap < Debounce => ~clock.sentInLastGap
    /\ clock.last.period \in 1..(Debounce - 1) => ~clock.last.intermediate

\* a playback at 50 Hz has applied its two waypoints, each a change of the
\* pose 20 ms after the one before, and ended; the message sent since then
\* carries the last waypoint
C32_Witness ==
    /\ clock.period = 4 /\ clock.lastGap = 4 /\ ~executingRef
    /\ Len(trajectoryHistory) = 3
    /\ trajectoryHistory[2].roll # trajectoryHistory[3].roll
    /\ clock.sentInGap /\ ~clock.sentInLastGap
    /\ clock.last.quiet = Debounce
    /\ Len(sent) = 1 /\ sent[1].type = "pose" /\ sent[1].data = pos
    /\ pos.roll = toFixed(radToDeg(trajectoryHistory[3].roll), 10)

\* C33: every outbound pose message carries the pose that is current when
\* it is sent: a pose change, local or induced by an inbound pose, cancels
\* the pending send, so that no stale pose is transmitted after a newer one
\* has been set.
C33_SentPoseIsCurrent ==
    \A i \in 1..Len(sent) : sent[i].type = "pose" => sent[i].data = pos

\* the field carries a finite number
CarriesFiniteNumber(v) == v.kind = "number" /\ IsFinite(v.v)

\* C34: when an inbound pose message is applied, a field that is absent or
\* that is no finite number (null, "", a boolean, a text, Infinity) keeps
\* its previous value, and only the fields that carry a finite number are
\* overwritten.
C34_OnlyFiniteNumbersOverwrite ==
    [][(ops' = ops + 1 /\ lastOp'.op = "onmessage" /\ lastOp'.accepted)
         => \E msg \in CoercedMessages :
               \A axis \in Axes :
                   pos'[axis] = IF CarriesFiniteNumber(msg.data[axis])
                                THEN msg.data[axis].v ELSE pos[axis]]_vars

(***************************************************************************)
(* Properties of the executor called during a playback                     *)
(***************************************************************************)
\* C36: a call of startTrajectory that arrives while the executor is
\* executing and is refused, for an empty plan or for a waypoint out of
\* reach, leaves the playback as it was: the timer, the stored sequence, the
\* index, the history and the pose are unchanged and the executor is still
\* executing.
C36_RefusedStartKeepsPlayback ==
    [][(executingRef /\ ops' = ops + 1 /\ lastOp'.op = "startTrajectory"
          /\ ~lastOp'.accepted)
         => /\ intervals' = intervals /\ animationTimerRef' = animationTimerRef
            /\ animationTimerRef' \in intervals'
            /\ trajectoryRef' = trajectoryRef /\ trajectory' = trajectory
            /\ waypointIndexRef' = waypointIndexRef
            /\ currentWaypointIndex' = currentWaypointIndex
            /\ trajectoryHistory' = trajectoryHistory
            /\ executingRef' /\ isExecuting' = isExecuting
            /\ pos' = pos]_vars

\* a call for a target out of reach was refused after the first waypoint of
\* a playback, which is still to apply its second
C36_Witness ==
    /\ lastOp.op = "startTrajectory" /\ lastOp.checked /\ ~lastOp.accepted
    /\ lastOp.target.x = FarAway
    /\ executingRef /\ animationTimerRef \in intervals
    /\ waypointIndexRef = 1 /\ Len(trajectoryRef) = 2
    /\ Len(trajectoryHistory) = 2

\* a call for the pose the arm is at was refused for its empty plan
C36_WitnessEmptyPlan ==
    /\ lastOp.op = "startTrajectory" /\ ~lastOp.checked /\ ~lastOp.accepted
    /\ executingRef /\ animationTimerRef \in intervals
    /\ waypointIndexRef = 1 /\ Len(trajectoryRef) = 2

(***************************************************************************)
(* Properties of the suppression flag                                      *)
(***************************************************************************)
\* C38: updatingFromWS is never set when an event is processed: the only
\* step taken with the flag set is the microtask that clears it, also after
\* a pose message with the pose the page is at, which causes no run of the
\* pose effect.  Hence every render that commits a new pose, whoever wrote
\* it, arms the pose timeout with that pose.
C38_FlagClearedBeforeNextEvent ==
    [][/\ updatingFromWS => (microtasks > 0 /\ microtasks' = microtasks - 1)
       /\ (updatingFromWS' /\ ~updatingFromWS)
            => (lastOp'.op = "onmessage" /\ lastOp'.accepted /\ microtasks' > 0)
       /\ rendered'.pos # rendered.pos
            => \E t \in timeouts' : t.id = poseTimer' /\ t.data = rendered'.pos]_vars

\* remote control is on; a message with the pose the page is at was handled
\* and then the + button was pressed: the flag is clear and the timeout of
\* the edited pose is armed
C38_Witness ==
    /\ remoteControl /\ wsState = "open"
    /\ ops = 2 /\ lastOp.op = "adjustValue"
    /\ trajectoryHistory = <<>>
    /\ pos.x = InitialPos.x + 1000 /\ posWriter = "user"
    /\ ~updatingFromWS /\ microtasks = 0
    /\ \E t \in timeouts : t.id = poseTimer /\ t.data = pos /\ t.author = "user"

(***************************************************************************)
(* Properties of the sockets                                               *)
(***************************************************************************)
\* C37: the step that switches remoteControl closes the socket wsRef held
\* and stores a new, connecting one; as long as the socket of wsRef is not
\* open nothing that is handed to sendWS is transmitted; and no socket other
\* than the one of wsRef is connecting or open, so that at most one
\* connection can be sent on.
C37_ToggleReplacesConnection ==
    [][/\ remoteControl' # remoteControl
            => /\ connection'.readyState[connection.wsRef] \in {"closing", "closed"}
               /\ connection'.wsRef \notin DOMAIN connection.readyState
               /\ ReadyState(connection') = "connecting"
       /\ ReadyState(connection') # "open" => sent' = <<>>
       /\ Live(connection') \subseteq {connection'.wsRef}
       /\ wsState' = ReadyState(connection')]_vars

\* the first socket was open and transmitted a release of the gripper; the
\* toggle closed it, and the press that followed was handed to sendWS while
\* the second socket is connecting: nothing was transmitted
C37_Witness ==
    /\ connection.wsRef = 2
    /\ connection.readyState[1] \in {"closing", "closed"}
    /\ connection.readyState[2] = "connecting"
    /\ actuator.held /\ actuator.last = <<0>>
    /\ Len(submitted) = 2 /\ submitted[1].type = "gripper"
    /\ sent = <<>>

(***************************************************************************)
(* Properties of the Autonomous page                                       *)
(***************************************************************************)
\* a set-input-target request has returned with status 'success'
TargetAccepted(a) ==
    \E i \in DOMAIN a.events : a.events[i] = Responded("input_target", "success")

\* C39: a set-init-state request is issued only after a set-input-target
\* request has returned with status 'success'.  A call of handleSetState
\* before that only sets the error message and issues nothing, and a
\* set-input-target request that returns another status, or fails, leaves
\* coordinatesSent as it was.
C39_InitStateOnlyAfterTarget ==
    [][/\ (autonomous'.events # autonomous.events
              /\ autonomous'.events[Len(autonomous'.events)] = Requested("init_state"))
            => TargetAccepted(autonomous)
       /\ (autonomous' # autonomous /\ autonomous'.lastOp = "handleSetState"
              /\ ~TargetAccepted(autonomous))
            => /\ autonomous'.events = autonomous.events
               /\ autonomous'.pending = autonomous.pending
               /\ autonomous'.message = "error"
               /\ autonomous'.loading = autonomous.loading
       /\ (autonomous'.events # autonomous.events
              /\ autonomous'.events[Len(autonomous'.events)]
                     \in {Responded("input_target", "error"),
                          Responded("input_target", "thrown")})
            => autonomous'.coordinatesSent = autonomous.coordinatesSent
       /\ autonomous'.coordinatesSent => TargetAccepted(autonomous')]_vars

\* a first submission came back with an error status, a second one with
\* 'success', and then the set-init-state request was issued
C39_Witness ==
    /\ Len(autonomous.events) = 5
    /\ autonomous.events[2] = Responded("input_target", "error")
    /\ autonomous.events[4] = Responded("input_target", "success")
    /\ autonomous.events[5] = Requested("init_state")
    /\ autonomous.loading /\ autonomous.coordinatesSent

\* handleSetState was called after a submission that failed: the page shows
\* the error and no request is in flight
C39_WitnessEarlyCall ==
    /\ autonomous.lastOp = "handleSetState"
    /\ autonomous.events = <<Requested("input_target"), Responded("input_target", "thrown")>>
    /\ autonomous.message = "error" /\ autonomous.pending = {}
    /\ ~autonomous.coordinatesSent

(***************************************************************************)
(* Properties of the solver                                                *)
(***************************************************************************)
\* a of the pose given to the solver
SolverA == PlanarA(solver.x, solver.y, solver.pitch)

\* b of the pose given to the solver
SolverB == PlanarB(solver.z, solver.pitch)

\* the pose given to the solver is (x, 0, z, 0, 0)
SolverPoseIs(x, z) ==
    solver.x = x /\ solver.y = 0 /\ solver.z = z /\ solver.roll = 0 /\ solver.pitch = 0

\* C21: isReachable returns true exactly when |d| <= 1, d being
\* (a^2 + b^2 - l2^2 - l3^2) / (2 * l2 * l3) with l1 = 0.1, l2 = l3 = 0.43 and
\* l4 = 0.213; it is true for (0.15, 0, 0.35, 0, 0) and false for
\* (0, 0, -5, 0, 0).
C21_ReachableIffDWithinOne ==
    /\ l1 = 10000 /\ l2 = 43000 /\ l3 = 43000 /\ l4 = 21300
    /\ solver.pc \in {"checked", "solved"} =>
          /\ solver.reachable
                <=> (Abs(SqE8(SolverA) + SqE8(SolverB) - SqE8(l2) - SqE8(l3))
                        <= 2 * ((l2 * l3) \div 100))
          /\ SolverPoseIs(15000, 35000) => solver.reachable
          /\ SolverPoseIs(0, -500000) => ~solver.reachable

\* isReachable has rejected (0, 0, -5, 0, 0)
C21_Witness ==
    /\ solver.pc = "checked"
    /\ SolverPoseIs(0, -500000)
    /\ ~solver.reachable
\* the angle q lies in the range of joint j
InRange(j, q) == limits[j][1] <= q /\ q <= limits[j][2]

\* C22: every joint-angle set that is sent lies within the range of each
\* joint, q1 in [-90, 90], q2 in [-10, 190], q3 and q4 in [-150, 150] and q5
\* in [-90, 90] degrees.
C22_SentAnglesWithinLimits ==
    \A k \in 1..Len(sent) :
        sent[k].type = "joint_angles"
            => \A j \in {"q1", "q2", "q3", "q4", "q5"} : InRange(j, sent[k].data[j])
\* C23: for every pose that isReachable accepts, inverseKinematics returns
\* five joint angles that are finite and not NaN.
C23_ReachableGivesFiniteAngles ==
    (solver.pc = "solved" /\ solver.reachable)
        => \A j \in {"q1", "q2", "q3", "q4", "q5"} : IsFinite(solver.angles[j])

\* q3 as the solver computes it from the clamped d, in degrees
SolverElbow ==
    radToDeg(-Atan2(ISqrt(10000 * 10000 - solver.clamped * solver.clamped),
                    solver.clamped))

\* C30: isReachable is stricter than the clamp of the solver: for a pose it
\* accepts, Math.max(-1, Math.min(1, d)) leaves d as it was; for a pose it
\* rejects, inverseKinematics still returns angles, computed from the
\* clamped d.
C30_ReachabilityStricterThanClamp ==
    solver.pc = "solved" =>
        /\ solver.reachable => solver.clamped = solver.d
        /\ ~solver.reachable =>
              /\ Abs(solver.d) >= 10000
              /\ solver.clamped \in {-10000, 10000}
              /\ solver.angles # NoData
              /\ solver.angles.q3 = SolverElbow
              /\ \A j \in {"q1", "q2", "q3", "q4"} : IsFinite(solver.angles[j])

\* the solver has answered for a pose that isReachable rejected, d being
\* above 1 and cut to 1: the elbow is straight
C30_Witness ==
    /\ solver.pc = "solved"
    /\ ~solver.reachable
    /\ solver.d > 10000 /\ solver.clamped = 10000
    /\ solver.angles.q3 = 0

(***************************************************************************)
(* Properties of the press/release buttons                                 *)
(***************************************************************************)
\* C24: once the button is no longer held, the last value sent for its
\* actuator is zero, a press having sent a nonzero value and a release zero.
C24_ReleasedMeansZero ==
    ~actuator.held => actuator.last \in {<<>>, <<0>>}
====
